---------------------------- MODULE Spec2Model ----------------------------
(***************************************************************************)
(* Path-planning core of the robot navigation service (algorithm-service): *)
(* the arena (Grid), the viewpoint generator (Obstacle.get_view_state),    *)
(* the pose-graph search (MazeSolver._astar_search), the visit-order       *)
(* solver (MazeSolver.get_optimal_path) and the motion compiler            *)
(* (optimal_path_to_motion_path, CommandGenerator.generate_commands).      *)
(*                                                                         *)
(* The arena is a square of ArenaSize cells a side.  The service builds    *)
(* its MazeSolver with size 20; the model keeps every formula of the code  *)
(* in terms of the arena size and checks it on a smaller square, so that   *)
(* an A* search, which expands nearly every pose of the arena whenever the *)
(* goal carries a penalty, stays within reach of the model checker.  The   *)
(* Grid keeps the size it was built with (size_x, size_y); the searches    *)
(* over long distances run in a Grid of WideGridSize cells a side.         *)
(***************************************************************************)
EXTENDS Integers, Sequences, FiniteSets, TLC

(***************************************************************************)
(* The state of the service; the actions follow the definitions of the     *)
(* code they call.                                                         *)
(***************************************************************************)
VARIABLES
    pc,           \* "setup", "mask", "paths", "astar", "combos", "solved", "done"
    robot,        \* the Robot's start CellState, with its key ref
    obstacles,    \* Grid.obstacles
    request_ids,  \* the ids of the obstacles passed to add_obstacle
    tables,       \* the MazeSolver: the size of its Grid and its four tables
    run,          \* the locals of get_optimal_path
    astar,        \* the locals of the _astar_search in progress
    out,          \* what the route answers
    order         \* two Grids that receive one obstacle set in two orders

vars == <<pc, robot, obstacles, request_ids, tables, run, astar, out, order>>

(***************************************************************************)
(* Bounds of the model.                                                    *)
(***************************************************************************)
ArenaSize == 8
MaxObstacles == 2

(***************************************************************************)
(* consts.py                                                               *)
(***************************************************************************)
EXPANDED_CELL == 1
ARENA_WIDTH == ArenaSize
ARENA_HEIGHT == ArenaSize
OBSTACLE_SIZE == 1
ITERATIONS == 5000
SAFE_COST == 1000
SCREENSHOT_COST == 100
DISTANCE_COST == 1000
TURN_FACTOR == 5
REVERSE_FACTOR == 0
TURN_DISPLACEMENT == <<2, 1>>
OFFSET == 1
TURN_PADDING == (OFFSET + 1) * EXPANDED_CELL
MID_TURN_PADDING == (OFFSET + 1) * EXPANDED_CELL
PADDING == (OFFSET + 1) * EXPANDED_CELL
MIN_CLEARANCE == 1
W_COMMAND_FLAG == 0
INF_DIST == 1000000000

(***************************************************************************)
(* Direction (movement.py): N, E, S, W, SKIP encoded 0, 2, 4, 6, 8.        *)
(***************************************************************************)
NORTH == 0
EAST == 2
SOUTH == 4
WEST == 6
SKIP == 8
Cardinal == {NORTH, EAST, SOUTH, WEST}

Abs(n) == IF n < 0 THEN -n ELSE n
Min2(a, b) == IF a < b THEN a ELSE b
Max2(a, b) == IF a > b THEN a ELSE b

\* Direction.turn_cost: the minimum number of 90-degree rotations.
turn_cost(d1, d2) ==
    LET diff == Abs(d1 - d2) \div 2
    IN  Min2(diff, 4 - diff)

\* MOVE_DIRECTION: (dx, dy, direction) for the four cardinal directions.
MOVE_DIRECTION ==
    << <<0, 1, NORTH>>, <<1, 0, EAST>>, <<0, -1, SOUTH>>, <<-1, 0, WEST>> >>

(***************************************************************************)
(* Motion (movement.py).                                                   *)
(***************************************************************************)
Motions ==
    {"FORWARD", "REVERSE", "FORWARD_LEFT_TURN", "FORWARD_RIGHT_TURN",
     "REVERSE_LEFT_TURN", "REVERSE_RIGHT_TURN", "CAPTURE"}

opposite_motion(m) ==
    CASE m = "FORWARD" -> "REVERSE"
      [] m = "REVERSE" -> "FORWARD"
      [] m = "FORWARD_LEFT_TURN" -> "REVERSE_RIGHT_TURN"
      [] m = "REVERSE_RIGHT_TURN" -> "FORWARD_LEFT_TURN"
      [] m = "FORWARD_RIGHT_TURN" -> "REVERSE_LEFT_TURN"
      [] m = "REVERSE_LEFT_TURN" -> "FORWARD_RIGHT_TURN"
      [] OTHER -> m

\* An is_combinable that holds of FORWARD only.
is_combinable_forward_only(m) == m = "FORWARD"

\* An is_combinable that holds of every motion but CAPTURE.
is_combinable_all_moves(m) == m # "CAPTURE"

is_combinable(m) == m \in {"FORWARD", "REVERSE"}

reverse_cost(m) ==
    IF m \in {"REVERSE", "REVERSE_LEFT_TURN", "REVERSE_RIGHT_TURN"} THEN 1 ELSE 0

(***************************************************************************)
(* Sequence helpers.                                                       *)
(***************************************************************************)
Reverse(s) == [i \in 1..Len(s) |-> s[Len(s) + 1 - i]]

RECURSIVE Concat(_)
Concat(ss) == IF ss = <<>> THEN <<>> ELSE Head(ss) \o Concat(Tail(ss))

RECURSIVE SumSeq(_)
SumSeq(s) == IF s = <<>> THEN 0 ELSE Head(s) + SumSeq(Tail(s))

Range(s) == {s[i] : i \in 1..Len(s)}

(***************************************************************************)
(* Grid (entity.py).  obs is the list Grid.obstacles of records            *)
(* [x, y, direction, obstacle_id].                                         *)
(***************************************************************************)
is_valid_coord(x, y) ==
    0 < x /\ x < tables.size_x - 1 /\ 0 < y /\ y < tables.size_y - 1

\* A reachable without the Manhattan condition.
reachable_chebyshev_only(obs, x, y) ==
    /\ is_valid_coord(x, y)
    /\ \A i \in 1..Len(obs) :
          ~(Max2(Abs(obs[i].x - x), Abs(obs[i].y - y)) < PADDING)

reachable(obs, x, y) ==
    /\ is_valid_coord(x, y)
    /\ \A i \in 1..Len(obs) :
          /\ ~(Abs(obs[i].x - x) + Abs(obs[i].y - y) <= PADDING)
          /\ ~(Max2(Abs(obs[i].x - x), Abs(obs[i].y - y)) < PADDING)

\* The three sampled points of a turn arc, in quarter cells (each
\* coordinate is four times the value the code computes).
turn_checking_points(x, y, new_x, new_y, direction) ==
    IF direction = NORTH \/ direction = SOUTH
    THEN << <<3 * x + new_x, 2 * y + 2 * new_y>>,
            <<3 * x + new_x, y + 3 * new_y>>,
            <<2 * x + 2 * new_x, y + 3 * new_y>> >>
    ELSE << <<2 * x + 2 * new_x, 3 * y + new_y>>,
            <<x + 3 * new_x, 3 * y + new_y>>,
            <<x + 3 * new_x, 2 * y + 2 * new_y>> >>

\* sqrt(dx^2 + dy^2) < r, for non-negative r, on integers.
DistLess(dx, dy, r) == dx * dx + dy * dy < r * r

turn_reachable(obs, x, y, new_x, new_y, direction) ==
    LET points == turn_checking_points(x, y, new_x, new_y, direction)
    IN  /\ is_valid_coord(x, y)
        /\ is_valid_coord(new_x, new_y)
        /\ \A i \in 1..Len(obs) :
              /\ ~DistLess(obs[i].x - x, obs[i].y - y, TURN_PADDING)
              /\ ~DistLess(obs[i].x - new_x, obs[i].y - new_y, TURN_PADDING)
              /\ \A p \in 1..3 :
                    ~DistLess(4 * obs[i].x - points[p][1],
                              4 * obs[i].y - points[p][2],
                              4 * MID_TURN_PADDING)


\* Grid.add_obstacle: a duplicate (Obstacle.__eq__: same x, y, direction)
\* is ignored; otherwise append, then a stable sort by (x, y).
ObstacleEq(a, b) == a.x = b.x /\ a.y = b.y /\ a.direction = b.direction

KeyLeq(a, b) == a.x < b.x \/ (a.x = b.x /\ a.y <= b.y)

\* list.sort(key=lambda ob: (ob.x, ob.y)): a stable sort, as an insertion
\* sort that puts each element after the elements whose key is not greater.
StableInsert(sorted, o) ==
    LET before == SelectSeq(sorted, LAMBDA e : KeyLeq(e, o))
        after == SelectSeq(sorted, LAMBDA e : ~KeyLeq(e, o))
    IN  before \o <<o>> \o after

RECURSIVE SortByXY(_)
SortByXY(s) ==
    IF s = <<>> THEN <<>>
    ELSE StableInsert(SortByXY(SubSeq(s, 1, Len(s) - 1)), s[Len(s)])

\* An add_obstacle that appends and does not sort.
add_obstacle_no_sort(obs, o) ==
    IF \E i \in 1..Len(obs) : ObstacleEq(o, obs[i])
    THEN obs
    ELSE Append(obs, o)

add_obstacle(obs, o) ==
    IF \E i \in 1..Len(obs) : ObstacleEq(o, obs[i])
    THEN obs
    ELSE SortByXY(Append(obs, o))

\* Grid.reset_obstacles: the empty list.
reset_obstacles == <<>>

\* Grid.find_obstacle_by_id: the first obstacle with that id, or <<>>.
find_obstacle_by_id(obs, id) ==
    LET hits == SelectSeq(obs, LAMBDA e : e.obstacle_id = id)
    IN  IF hits = <<>> THEN <<>> ELSE <<Head(hits)>>

(***************************************************************************)
(* CellState and Obstacle.get_view_state (entity.py).  A CellState is a    *)
(* record [x, y, direction, screenshot_id, penalty]; screenshot_id is <<>> *)
(* for None, <<id>> for an obstacle id and <<id, c>> for the tag "id_c".   *)
(***************************************************************************)
None == <<>>

CellState(x, y, direction, screenshot_id, penalty) ==
    [x |-> x, y |-> y, direction |-> direction,
     screenshot_id |-> screenshot_id, penalty |-> penalty]

is_eq(c, x, y, direction) == c.x = x /\ c.y = y /\ c.direction = direction

is_valid_position(x, y) ==
    0 < x /\ x < ARENA_WIDTH - 1 /\ 0 < y /\ y < ARENA_HEIGHT - 1

ViewDist == MIN_CLEARANCE + OBSTACLE_SIZE + OFFSET

\* The four candidate positions, in the order of the code.
CandidatePositions(o) ==
    CASE o.direction = NORTH ->
           << <<o.x - 1, o.y + ViewDist>>, <<o.x + 1, o.y + ViewDist>>,
              <<o.x, o.y + ViewDist + 1>>, <<o.x, o.y + ViewDist>> >>
      [] o.direction = SOUTH ->
           << <<o.x + 1, o.y - ViewDist>>, <<o.x - 1, o.y - ViewDist>>,
              <<o.x, o.y - ViewDist - 1>>, <<o.x, o.y - ViewDist>> >>
      [] o.direction = EAST ->
           << <<o.x + ViewDist, o.y + 1>>, <<o.x + ViewDist, o.y - 1>>,
              <<o.x + ViewDist + 1, o.y>>, <<o.x + ViewDist, o.y>> >>
      [] o.direction = WEST ->
           << <<o.x - ViewDist, o.y + 1>>, <<o.x - ViewDist, o.y - 1>>,
              <<o.x - ViewDist - 1, o.y>>, <<o.x - ViewDist, o.y>> >>
      [] OTHER -> <<>>

view_costs ==
    <<SCREENSHOT_COST + DISTANCE_COST, SCREENSHOT_COST + DISTANCE_COST,
      0, DISTANCE_COST>>

\* The direction the robot faces to view a face: the opposite one.
view_direction(d) ==
    CASE d = NORTH -> SOUTH
      [] d = SOUTH -> NORTH
      [] d = EAST -> WEST
      [] d = WEST -> EAST

get_view_state(o) ==
    LET positions == CandidatePositions(o)
        cells == [i \in 1..Len(positions) |->
                    CellState(positions[i][1], positions[i][2],
                              view_direction(o.direction),
                              <<o.obstacle_id>>, view_costs[i])]
    IN  SelectSeq(cells, LAMBDA c : is_valid_position(c.x, c.y))

\* A get_view_obstacle_positions that checks a view state against its own
\* obstacle only.
get_view_obstacle_positions_own_only(obs) ==
    LET visitable == SelectSeq(obs, LAMBDA o : o.direction # SKIP)
    IN  [i \in 1..Len(visitable) |->
            SelectSeq(get_view_state(visitable[i]),
                      LAMBDA c : reachable(<<visitable[i]>>, c.x, c.y))]

\* A get_view_obstacle_positions that keeps an entry, an empty one, for an
\* obstacle without a face.
get_view_obstacle_positions_keep_skip(obs) ==
    [i \in 1..Len(obs) |->
        IF obs[i].direction = SKIP THEN <<>>
        ELSE SelectSeq(get_view_state(obs[i]),
                       LAMBDA c : reachable(obs, c.x, c.y))]

\* Grid.get_view_obstacle_positions: one list per non-SKIP obstacle, of the
\* view states whose cell is reachable.
get_view_obstacle_positions(obs) ==
    LET visitable == SelectSeq(obs, LAMBDA o : o.direction # SKIP)
    IN  [i \in 1..Len(visitable) |->
            SelectSeq(get_view_state(visitable[i]),
                      LAMBDA c : reachable(obs, c.x, c.y))]

(***************************************************************************)
(* Neighbour enumeration (algo.py).                                        *)
(***************************************************************************)
_get_turn_configs(direction, md, delta_big, delta_small, x, y) ==
    CASE direction = NORTH /\ md = EAST ->
           << <<x + delta_big, y + delta_small, "FORWARD_RIGHT_TURN">>,
              <<x - delta_small, y - delta_big, "REVERSE_LEFT_TURN">> >>
      [] direction = EAST /\ md = NORTH ->
           << <<x + delta_small, y + delta_big, "FORWARD_LEFT_TURN">>,
              <<x - delta_big, y - delta_small, "REVERSE_RIGHT_TURN">> >>
      [] direction = EAST /\ md = SOUTH ->
           << <<x + delta_small, y - delta_big, "FORWARD_RIGHT_TURN">>,
              <<x - delta_big, y + delta_small, "REVERSE_LEFT_TURN">> >>
      [] direction = SOUTH /\ md = EAST ->
           << <<x + delta_big, y - delta_small, "FORWARD_LEFT_TURN">>,
              <<x - delta_small, y + delta_big, "REVERSE_RIGHT_TURN">> >>
      [] direction = SOUTH /\ md = WEST ->
           << <<x - delta_big, y - delta_small, "FORWARD_RIGHT_TURN">>,
              <<x + delta_small, y + delta_big, "REVERSE_LEFT_TURN">> >>
      [] direction = WEST /\ md = SOUTH ->
           << <<x - delta_small, y - delta_big, "FORWARD_LEFT_TURN">>,
              <<x + delta_big, y + delta_small, "REVERSE_RIGHT_TURN">> >>
      [] direction = WEST /\ md = NORTH ->
           << <<x - delta_small, y + delta_big, "FORWARD_RIGHT_TURN">>,
              <<x + delta_big, y - delta_small, "REVERSE_LEFT_TURN">> >>
      [] direction = NORTH /\ md = WEST ->
           << <<x - delta_big, y + delta_small, "FORWARD_LEFT_TURN">>,
              <<x + delta_small, y - delta_big, "REVERSE_RIGHT_TURN">> >>
      [] OTHER -> <<>>

_calculate_safe_cost(obs, new_x, new_y) ==
    IF \E i \in 1..Len(obs) :
          Abs(obs[i].x - new_x) <= PADDING /\ Abs(obs[i].y - new_y) <= PADDING
    THEN SAFE_COST
    ELSE 0

\* The neighbours one entry of MOVE_DIRECTION contributes, as tuples
\* <<new_x, new_y, new_direction, safe_cost, motion>>.
NeighborsFor(obs, x, y, direction, mv) ==
    LET dx == mv[1]
        dy == mv[2]
        md == mv[3]
    IN  IF md = direction
        THEN (IF reachable(obs, x + dx, y + dy)
              THEN << <<x + dx, y + dy, md,
                        _calculate_safe_cost(obs, x + dx, y + dy), "FORWARD">> >>
              ELSE <<>>)
             \o
             (IF reachable(obs, x - dx, y - dy)
              THEN << <<x - dx, y - dy, md,
                        _calculate_safe_cost(obs, x - dx, y - dy), "REVERSE">> >>
              ELSE <<>>)
        ELSE LET turn_configs ==
                     _get_turn_configs(direction, md, TURN_DISPLACEMENT[1],
                                       TURN_DISPLACEMENT[2], x, y)
                 ok == SelectSeq(turn_configs,
                          LAMBDA c : turn_reachable(obs, x, y, c[1], c[2], direction))
             IN  [i \in 1..Len(ok) |->
                    <<ok[i][1], ok[i][2], md,
                      _calculate_safe_cost(obs, ok[i][1], ok[i][2]), ok[i][3]>>]

\* _get_neighboring_states without its cache.
ComputeNeighbors(obs, x, y, direction) ==
    Concat([i \in 1..Len(MOVE_DIRECTION) |->
              NeighborsFor(obs, x, y, direction, MOVE_DIRECTION[i])])

\* _get_neighboring_states: the cached list when there is one.
_get_neighboring_states(cache, obs, x, y, direction) ==
    IF <<x, y, direction>> \in DOMAIN cache
    THEN cache[<<x, y, direction>>]
    ELSE ComputeNeighbors(obs, x, y, direction)

_estimate_distance(x1, y1, x2, y2) == Abs(x1 - x2) + Abs(y1 - y2)

(***************************************************************************)
(* _astar_search (algo.py).  The locals of one search are a record         *)
(* [start, end, g_dist, visited, parent_dict, heap]: start and end are the *)
(* keys (object identities) of the two CellStates with their poses, g_dist *)
(* and parent_dict are functions on poses <<x, y, direction>>, heap is the *)
(* list of the entries <<f, x, y, direction>> pushed and not yet popped.   *)
(***************************************************************************)
Put(f, k, v) == (k :> v) @@ f

EmptyMap == <<>>

\* The order of Python tuples (f, x, y, direction).
TupleLess(a, b) ==
    \/ a[1] < b[1]
    \/ a[1] = b[1] /\ a[2] < b[2]
    \/ a[1] = b[1] /\ a[2] = b[2] /\ a[3] < b[3]
    \/ a[1] = b[1] /\ a[2] = b[2] /\ a[3] = b[3] /\ a[4] < b[4]

\* A heap that hands out, of the entries of least f, the one pushed first.
HeapMinIndex_insertion_order(heap) ==
    CHOOSE i \in 1..Len(heap) :
        /\ \A j \in 1..Len(heap) : heap[i][1] <= heap[j][1]
        /\ \A j \in 1..(i - 1) : heap[j][1] # heap[i][1]

\* The place of the least entry of a non-empty heap (the first, were the
\* entry there twice).
HeapMinIndex(heap) ==
    LET least == CHOOSE t \in Range(heap) :
                    \A u \in Range(heap) : ~TupleLess(u, t)
    IN  CHOOSE i \in 1..Len(heap) :
           heap[i] = least /\ \A j \in 1..(i - 1) : heap[j] # least

\* A heappop that hands out the least entry and leaves it in the heap.
heappop_keep(heap) ==
    [item |-> heap[CHOOSE i \in 1..Len(heap) :
                       \A j \in 1..Len(heap) : ~TupleLess(heap[j], heap[i])],
     heap |-> heap]

\* heapq.heappop: the least entry leaves the heap.
heappop(heap) ==
    LET i == HeapMinIndex(heap)
    IN  [item |-> heap[i],
         heap |-> SubSeq(heap, 1, i - 1) \o SubSeq(heap, i + 1, Len(heap))]

heappush(heap, item) == Append(heap, item)

\* The walk of _record_path from the end pose along the parent pointers.
RECURSIVE ParentWalk(_, _)
ParentWalk(parent, pointer) ==
    IF pointer \in DOMAIN parent
    THEN <<pointer>> \o ParentWalk(parent, parent[pointer])
    ELSE <<pointer>>

\* A _record_path that keeps the path of the search orientation only.
_record_path_one_way(self, start, end, parent, cost) ==
    LET path == ParentWalk(parent, <<end.x, end.y, end.direction>>)
    IN  [cost_table |->
            Put(Put(self.cost_table, <<start.ref, end.ref>>, cost),
                <<end.ref, start.ref>>, cost),
         path_table |->
            Put(self.path_table, <<start.ref, end.ref>>, Reverse(path))]

\* A _record_path that stores the same list under both keys.
_record_path_same_list(self, start, end, parent, cost) ==
    LET path == ParentWalk(parent, <<end.x, end.y, end.direction>>)
    IN  [cost_table |->
            Put(Put(self.cost_table, <<start.ref, end.ref>>, cost),
                <<end.ref, start.ref>>, cost),
         path_table |->
            Put(Put(self.path_table, <<start.ref, end.ref>>, Reverse(path)),
                <<end.ref, start.ref>>, Reverse(path))]

\* A _record_path whose mirrored cost entry is not the cost of the search.
_record_path_unequal_cost(self, start, end, parent, cost) ==
    LET path == ParentWalk(parent, <<end.x, end.y, end.direction>>)
    IN  [cost_table |->
            Put(Put(self.cost_table, <<start.ref, end.ref>>, cost),
                <<end.ref, start.ref>>, cost + 1),
         path_table |->
            Put(Put(self.path_table, <<start.ref, end.ref>>, Reverse(path)),
                <<end.ref, start.ref>>, path)]

\* _record_path: both orientations of the cost and of the path.
_record_path(self, start, end, parent, cost) ==
    LET path == ParentWalk(parent, <<end.x, end.y, end.direction>>)
    IN  [cost_table |->
            Put(Put(self.cost_table, <<start.ref, end.ref>>, cost),
                <<end.ref, start.ref>>, cost),
         path_table |->
            Put(Put(self.path_table, <<start.ref, end.ref>>, Reverse(path)),
                <<end.ref, start.ref>>, path)]

\* A loop over the neighbours that stores the motion of every edge it
\* meets, whatever motion_table holds already.
RECURSIVE Relax_store_always(_, _, _, _, _, _, _)
Relax_store_always(nbrs, i, st, pose, dist, end, visited) ==
    IF i > Len(nbrs) THEN st
    ELSE
      LET n == nbrs[i]
          new == <<n[1], n[2], n[3]>>
          mt == Put(st.motion_table, pose \o new, n[5])
          g == dist + TURN_FACTOR * turn_cost(pose[3], new[3])
                 + REVERSE_FACTOR * reverse_cost(n[5]) + n[4]
                 + (IF is_eq(end, new[1], new[2], new[3]) THEN end.penalty ELSE 0)
          total_cost == g + _estimate_distance(new[1], new[2], end.x, end.y)
      IN  IF new \in visited
          THEN Relax_store_always(nbrs, i + 1, st, pose, dist, end, visited)
          ELSE IF new \notin DOMAIN st.g_dist \/ st.g_dist[new] > g
          THEN Relax_store_always(nbrs, i + 1,
                     [g_dist |-> Put(st.g_dist, new, g),
                      heap |-> heappush(st.heap, <<total_cost>> \o new),
                      parent_dict |-> Put(st.parent_dict, new, pose),
                      motion_table |-> mt],
                     pose, dist, end, visited)
          ELSE Relax_store_always(nbrs, i + 1, [st EXCEPT !.motion_table = mt],
                     pose, dist, end, visited)

\* The body of the loop over the neighbours of the popped pose, for the
\* neighbours nbrs[i..]: st is [g_dist, heap, parent_dict, motion_table].
RECURSIVE Relax(_, _, _, _, _, _, _)
Relax(nbrs, i, st, pose, dist, end, visited) ==
    IF i > Len(nbrs) THEN st
    ELSE
      LET n == nbrs[i]
          new == <<n[1], n[2], n[3]>>
          safe_cost == n[4]
          motion == n[5]
          fwd == pose \o new
          bwd == new \o pose
          mt == IF fwd \notin DOMAIN st.motion_table
                   /\ bwd \notin DOMAIN st.motion_table
                THEN Put(st.motion_table, fwd, motion)
                ELSE st.motion_table
          motion_cost == TURN_FACTOR * turn_cost(pose[3], new[3])
                         + REVERSE_FACTOR * reverse_cost(motion) + safe_cost
          screenshot_cost == IF is_eq(end, new[1], new[2], new[3])
                             THEN end.penalty ELSE 0
          g == dist + motion_cost + screenshot_cost
          total_cost == g + _estimate_distance(new[1], new[2], end.x, end.y)
      IN  IF new \in visited
          THEN Relax(nbrs, i + 1, st, pose, dist, end, visited)
          ELSE IF new \notin DOMAIN st.g_dist \/ st.g_dist[new] > g
          THEN Relax(nbrs, i + 1,
                     [g_dist |-> Put(st.g_dist, new, g),
                      heap |-> heappush(st.heap, <<total_cost>> \o new),
                      parent_dict |-> Put(st.parent_dict, new, pose),
                      motion_table |-> mt],
                     pose, dist, end, visited)
          ELSE Relax(nbrs, i + 1, [st EXCEPT !.motion_table = mt],
                     pose, dist, end, visited)

\* A search that enters its loop with the estimate as the cost of start.
AstarInit_estimate_as_cost(start, end) ==
    [start |-> start, end |-> end,
     g_dist |-> Put(EmptyMap, <<start.x, start.y, start.direction>>,
                    _estimate_distance(start.x, start.y, end.x, end.y)),
     visited |-> {},
     parent_dict |-> EmptyMap,
     heap |-> << <<_estimate_distance(start.x, start.y, end.x, end.y),
                   start.x, start.y, start.direction>> >>]

\* The locals of _astar_search(start, end) when its loop is entered.
AstarInit(start, end) ==
    [start |-> start, end |-> end,
     g_dist |-> Put(EmptyMap, <<start.x, start.y, start.direction>>, 0),
     visited |-> {},
     parent_dict |-> EmptyMap,
     heap |-> << <<_estimate_distance(start.x, start.y, end.x, end.y),
                   start.x, start.y, start.direction>> >>]

\* One iteration of the while loop, the heap not empty.  The result holds
\* the locals, the solver's tables and whether the search returned.
AstarIteration(a, self, obs) ==
    LET popped == heappop(a.heap)
        pose == <<popped.item[2], popped.item[3], popped.item[4]>>
        nbrs == _get_neighboring_states(self.neighbor_cache, obs,
                                        pose[1], pose[2], pose[3])
        st == Relax(nbrs, 1,
                    [g_dist |-> a.g_dist, heap |-> popped.heap,
                     parent_dict |-> a.parent_dict,
                     motion_table |-> self.motion_table],
                    pose, a.g_dist[pose], a.end, a.visited \cup {pose})
    IN  IF pose \in a.visited
        THEN [a |-> [a EXCEPT !.heap = popped.heap],
              tables |-> self, returned |-> FALSE]
        ELSE IF is_eq(a.end, pose[1], pose[2], pose[3])
        THEN [a |-> [a EXCEPT !.heap = popped.heap],
              tables |-> [self EXCEPT
                  !.cost_table = _record_path(self, a.start, a.end,
                                     a.parent_dict, a.g_dist[pose]).cost_table,
                  !.path_table = _record_path(self, a.start, a.end,
                                     a.parent_dict, a.g_dist[pose]).path_table],
              returned |-> TRUE]
        ELSE [a |-> [a EXCEPT !.heap = st.heap, !.g_dist = st.g_dist,
                              !.parent_dict = st.parent_dict,
                              !.visited = a.visited \cup {pose}],
              tables |-> [self EXCEPT
                  !.motion_table = st.motion_table,
                  !.neighbor_cache = Put(self.neighbor_cache, pose, nbrs)],
              returned |-> FALSE]

(***************************************************************************)
(* The visit-order solver (algo.py): masks, combinations, the cost matrix, *)
(* the tour and the stitching of the path.                                 *)
(***************************************************************************)
\* bin(i)[2:]: the binary digits of i, most significant first.
RECURSIVE BinDigits(_)
BinDigits(i) ==
    IF i < 2 THEN <<(IF i = 1 THEN "1" ELSE "0")>>
    ELSE Append(BinDigits(i \div 2), IF i % 2 = 1 THEN "1" ELSE "0")

\* str.zfill(width): zeros on the left up to the width.
RECURSIVE zfill(_, _)
zfill(str, width) == IF Len(str) >= width THEN str ELSE zfill(<<"0">> \o str, width)

\* str.count("1").
CountOnes(str) == Cardinality({i \in 1..Len(str) : str[i] = "1"})

RECURSIVE Pow2(_)
Pow2(n) == IF n = 0 THEN 1 ELSE 2 * Pow2(n - 1)

\* A sort that leaves the list as it is.
SortByOnes_unsorted(strings) == strings

\* list.sort(key=count of "1", reverse=True): the sort is stable, so the
\* result lists the strings of the largest count first and, for each count,
\* its strings in the order they had.
SortByOnesDesc(strings) ==
    LET width == Len(strings[1])
        WithCount(c) == SelectSeq(strings, LAMBDA e : CountOnes(e) = c)
    IN  Concat([k \in 1..(width + 1) |-> WithCount(width + 1 - k)])

_get_visit_options(n) ==
    LET max_len == CountOnes(BinDigits(Pow2(n) - 1))
        strings == [k \in 1..Pow2(n) |-> zfill(BinDigits(k - 1), max_len)]
    IN  SortByOnesDesc(strings)

\* _generate_combinations(view_positions, index, current, result, num_iters),
\* index counted from 1; a combination lists 0-based choices.
RECURSIVE _generate_combinations(_, _, _, _, _)
RECURSIVE GenerateChoices(_, _, _, _, _, _)
_generate_combinations(view_positions, index, current, result, num_iters) ==
    IF index = Len(view_positions) + 1 THEN Append(result, current)
    ELSE IF num_iters = 0 THEN result
    ELSE GenerateChoices(view_positions, index, current, result, num_iters - 1, 0)

\* The for loop of _generate_combinations from choice i on.
GenerateChoices(view_positions, index, current, result, num_iters, i) ==
    IF i >= Len(view_positions[index]) THEN result
    ELSE GenerateChoices(view_positions, index, current,
            _generate_combinations(view_positions, index + 1,
                                   Append(current, i), result, num_iters),
            num_iters, i + 1)

\* The indices (0-based, into visit_states) a combination selects,
\* the start state first.
RECURSIVE VisitedFrom(_, _, _, _)
VisitedFrom(cur_view_positions, combination, idx, current_idx) ==
    IF idx > Len(cur_view_positions) THEN <<>>
    ELSE <<current_idx + combination[idx]>>
         \o VisitedFrom(cur_view_positions, combination, idx + 1,
                        current_idx + Len(cur_view_positions[idx]))

VisitedOf(cur_view_positions, combination) ==
    <<0>> \o VisitedFrom(cur_view_positions, combination, 1, 1)

PenaltyOf(cur_view_positions, combination) ==
    SumSeq([idx \in 1..Len(cur_view_positions) |->
               cur_view_positions[idx][combination[idx] + 1].penalty])

\* The cost matrix over 0..m: cost_table where it has the pair, 1e9 where
\* not, symmetric, then column 0 set to 0.
CostMatrix(cost_table, visit_states, visited) ==
    LET m == Len(visited) - 1
        state(k) == visit_states[visited[k + 1] + 1]
        entry(a, b) == IF <<state(a).ref, state(b).ref>> \in DOMAIN cost_table
                       THEN cost_table[<<state(a).ref, state(b).ref>>]
                       ELSE INF_DIST
    IN  [r \in 0..m, c \in 0..m |->
            IF c = 0 THEN 0
            ELSE IF r = c THEN 0
            ELSE IF r < c THEN entry(r, c) ELSE entry(c, r)]

\* The permutations of 0..m that begin with 0, as sequences.
Permutations0(m) ==
    {p \in [1..(m + 1) -> 0..m] :
        p[1] = 0 /\ \A a, b \in 1..(m + 1) : a # b => p[a] # p[b]}

\* A sum of two values up to 1e9 that stops at 1e9: the solver only
\* compares a distance with min_dist, which never exceeds 1e9, so every
\* value from 1e9 on behaves alike (and the sums stay within TLC's integers).
CappedSum(a, b) == IF a >= INF_DIST - b THEN INF_DIST ELSE a + b

RECURSIVE CappedSumSeq(_)
CappedSumSeq(s) ==
    IF s = <<>> THEN 0 ELSE CappedSum(CappedSumSeq(Tail(s)), Head(s))

\* The length of the closed tour a permutation describes.
TourDistance(matrix, p) ==
    CappedSumSeq([k \in 1..Len(p) |->
                    matrix[p[k], p[IF k = Len(p) THEN 1 ELSE k + 1]]])

\* solve_tsp_lin_kernighan: a heuristic of the python_tsp library; what the
\* solver relies on is a permutation that begins with 0 and its distance.
solve_tsp_lin_kernighan(matrix, m) ==
    {[permutation |-> p, distance |-> TourDistance(matrix, p)] :
        p \in Permutations0(m)}

_get_capture_relative_position(cell_state, obstacle) ==
    LET x == cell_state.x
        y == cell_state.y
        direction == cell_state.direction
        x_obs == obstacle.x
        y_obs == obstacle.y
    IN  CASE direction = NORTH ->
               IF x_obs = x /\ y_obs > y THEN "C"
               ELSE IF x_obs < x THEN "L" ELSE "R"
          [] direction = SOUTH ->
               IF x_obs = x /\ y_obs < y THEN "C"
               ELSE IF x_obs < x THEN "R" ELSE "L"
          [] direction = EAST ->
               IF y_obs = y /\ x_obs > x THEN "C"
               ELSE IF y_obs < y THEN "R" ELSE "L"
          [] direction = WEST ->
               IF y_obs = y /\ x_obs < x THEN "C"
               ELSE IF y_obs < y THEN "L" ELSE "R"

\* Lines 156-183 of get_optimal_path from leg idx on: st is
\* [optimal_path, robot, error]; the first pose of optimal_path is the
\* robot's start CellState itself, so a tag set on a path of one pose is
\* set on the robot's start state.
RECURSIVE Stitch(_, _, _, _, _, _, _)
Stitch(st, idx, permutation, visited, visit_states, path_table, obs) ==
    IF idx > Len(permutation) - 1 \/ st.error # "" THEN st
    ELSE
      LET from_state == visit_states[visited[permutation[idx] + 1] + 1]
          to_state == visit_states[visited[permutation[idx + 1] + 1] + 1]
          key == <<from_state.ref, to_state.ref>>
          current_path == path_table[key]
          appended ==
              st.optimal_path
              \o [idx2 \in 1..(Len(current_path) - 1) |->
                     CellState(current_path[idx2 + 1][1], current_path[idx2 + 1][2],
                               current_path[idx2 + 1][3], None, 0)]
          found == find_obstacle_by_id(obs, to_state.screenshot_id[1])
          last == appended[Len(appended)]
          formatted == <<to_state.screenshot_id[1],
                         _get_capture_relative_position(last, found[1])>>
          tagged == [appended EXCEPT ![Len(appended)].screenshot_id = formatted]
      IN  IF key \notin DOMAIN path_table
          THEN [st EXCEPT !.error = "KeyError"]
          ELSE IF found = <<>>
          THEN [st EXCEPT !.optimal_path = appended, !.error = "ValueError"]
          ELSE Stitch([optimal_path |-> tagged,
                       robot |-> IF Len(appended) = 1
                                 THEN [st.robot EXCEPT !.screenshot_id = formatted]
                                 ELSE st.robot,
                       error |-> ""],
                      idx + 1, permutation, visited, visit_states, path_table, obs)

(***************************************************************************)
(* The motion compiler: optimal_path_to_motion_path (algo.py) and          *)
(* CommandGenerator (commands.py).  A command "Ts|a|v" is the tuple        *)
(* <<"T", s, a, v10>> with v10 the value in tenths; "SNAPid_c" is          *)
(* <<"SNAP", id, c>>; "FIN" is <<"FIN">>.                                  *)
(***************************************************************************)
\* The loop of optimal_path_to_motion_path from pose i on: acc is
\* [motion_path, obstacle_id_with_signals, scanned_obstacles, error].
RECURSIVE MotionsFrom(_, _, _, _, _)
MotionsFrom(acc, i, optimal_path, motion_table, obs) ==
    IF i > Len(optimal_path) - 1 \/ acc.error # "" THEN acc
    ELSE
      LET from_state == optimal_path[i]
          to_state == optimal_path[i + 1]
          fwd == <<from_state.x, from_state.y, from_state.direction,
                   to_state.x, to_state.y, to_state.direction>>
          bwd == <<to_state.x, to_state.y, to_state.direction,
                   from_state.x, from_state.y, from_state.direction>>
          motion == IF bwd \in DOMAIN motion_table
                    THEN opposite_motion(motion_table[bwd])
                    ELSE motion_table[fwd]
          capture == to_state.screenshot_id # None
      IN  IF bwd \notin DOMAIN motion_table /\ fwd \notin DOMAIN motion_table
          THEN [acc EXCEPT !.error = "ValueError"]
          ELSE MotionsFrom(
                 [motion_path |->
                     acc.motion_path \o <<motion>>
                     \o (IF capture THEN <<"CAPTURE">> ELSE <<>>),
                  obstacle_id_with_signals |->
                     acc.obstacle_id_with_signals
                     \o (IF capture THEN <<to_state.screenshot_id>> ELSE <<>>),
                  scanned_obstacles |->
                     acc.scanned_obstacles
                     \o (IF capture
                         THEN <<find_obstacle_by_id(obs, to_state.screenshot_id[1])>>
                         ELSE <<>>),
                  error |-> ""],
                 i + 1, optimal_path, motion_table, obs)

optimal_path_to_motion_path(optimal_path, motion_table, obs) ==
    MotionsFrom([motion_path |-> <<>>, obstacle_id_with_signals |-> <<>>,
                 scanned_obstacles |-> <<>>, error |-> ""],
                1, optimal_path, motion_table, obs)

UNIT_DIST == 10
straight_speed == 50

Cmd(flag, speed, angle, tenths) == <<flag, speed, angle, tenths>>

RealignCmds == <<Cmd("T", 25, 30, 1)>>

\* count repetitions of a list.
RECURSIVE Repeat(_, _)
Repeat(s, count) == IF count <= 0 THEN <<>> ELSE s \o Repeat(s, count - 1)

_generate_command(motion, num_motions) ==
    LET dist == IF num_motions > 1 THEN num_motions * UNIT_DIST ELSE UNIT_DIST
        remaining_dist == dist % 20
    IN  CASE motion = "FORWARD" ->
               <<Cmd("T", straight_speed, 0, dist * 10)>>
          [] motion = "REVERSE" ->
               Repeat(<<Cmd("t", 35, 0, 200)>> \o RealignCmds, dist \div 20)
               \o (IF remaining_dist > 0
                   THEN <<Cmd("t", 35, 0, remaining_dist * 10)>>
                        \o (IF remaining_dist >= 5 THEN RealignCmds ELSE <<>>)
                   ELSE <<>>)
          [] motion = "FORWARD_LEFT_TURN" ->
               <<Cmd("T", 30, -50, 460), Cmd("t", 25, 0, 230),
                 Cmd("T", 30, -50, 455), Cmd("T", 25, 10, 1), Cmd("t", 25, 0, 30)>>
          [] motion = "FORWARD_RIGHT_TURN" ->
               <<Cmd("T", 30, 50, 460), Cmd("t", 25, 0, 200),
                 Cmd("T", 30, 50, 457), Cmd("t", 25, 0, 40)>>
          [] motion = "REVERSE_LEFT_TURN" ->
               <<Cmd("T", 25, 0, 30), Cmd("t", 30, -50, 460),
                 Cmd("T", 25, 0, 220), Cmd("t", 30, -50, 465), Cmd("T", 25, 10, 1)>>
          [] motion = "REVERSE_RIGHT_TURN" ->
               <<Cmd("T", 25, 0, 60), Cmd("t", 30, 48, 454),
                 Cmd("T", 25, 0, 140), Cmd("t", 30, 48, 455)>>

\* int(unit_dist_from_obstacle * UNIT_DIST), the clearance being 0.3.
_generate_away_command(view_state, obstacle) ==
    LET dist_away == (Max2(Abs(view_state.x - obstacle.x),
                           Abs(view_state.y - obstacle.y))
                      - OFFSET - OBSTACLE_SIZE) * UNIT_DIST + 3
    IN  <<Cmd("W", straight_speed, 0, dist_away * 10),
          Cmd("w", straight_speed, 0, dist_away * 10)>>

\* What a CAPTURE adds to the commands.
CaptureCmds(obstacle_id_with_signals, scanned_obstacles, view_states, snap_count) ==
    LET signal == obstacle_id_with_signals[snap_count + 1]
    IN  (IF W_COMMAND_FLAG # 0 /\ signal[2] = "C"
         THEN _generate_away_command(view_states[snap_count + 1],
                                     scanned_obstacles[snap_count + 1][1])
         ELSE <<>>)
        \o << <<"SNAP", signal[1], signal[2]>> >>

\* The for loop of generate_commands over motions[i..]: st is
\* [commands, prev_motion, num_motions, snap_count].
RECURSIVE CommandLoop(_, _, _, _, _, _)
CommandLoop(st, i, motions, signals, scanned, view_states) ==
    IF i > Len(motions) THEN st
    ELSE
      LET motion == motions[i]
      IN  IF motion = st.prev_motion /\ is_combinable(motion)
          THEN CommandLoop([st EXCEPT !.num_motions = @ + 1, !.prev_motion = motion],
                           i + 1, motions, signals, scanned, view_states)
          ELSE IF st.prev_motion = "CAPTURE"
          THEN CommandLoop(
                 [st EXCEPT
                    !.commands = @ \o CaptureCmds(signals, scanned, view_states,
                                                  st.snap_count),
                    !.snap_count = @ + 1,
                    !.prev_motion = motion],
                 i + 1, motions, signals, scanned, view_states)
          ELSE CommandLoop(
                 [st EXCEPT
                    !.commands = @ \o _generate_command(st.prev_motion, st.num_motions),
                    !.num_motions = 1,
                    !.prev_motion = motion],
                 i + 1, motions, signals, scanned, view_states)

generate_commands(motions, obstacle_id_with_signals, scanned_obstacles, optimal_path) ==
    IF motions = <<>> THEN <<>>
    ELSE
      LET view_states == SelectSeq(optimal_path, LAMBDA c : c.screenshot_id # None)
          st == CommandLoop([commands |-> <<>>, prev_motion |-> motions[1],
                             num_motions |-> 1, snap_count |-> 0],
                            2, motions, obstacle_id_with_signals,
                            scanned_obstacles, view_states)
          last == IF st.prev_motion = "CAPTURE"
                  THEN CaptureCmds(obstacle_id_with_signals, scanned_obstacles,
                                   view_states, st.snap_count)
                  ELSE _generate_command(st.prev_motion, st.num_motions)
      IN  st.commands \o last \o << <<"FIN">> >>

(***************************************************************************)
(* The service as a state machine: the /path route (pathfinding.py) builds *)
(* a MazeSolver, adds the request's obstacles, calls get_optimal_path and  *)
(* compiles the commands.  get_optimal_path advances one loop iteration    *)
(* at a time: pc is the place of the control in it.                        *)
(***************************************************************************)
Obstacle(x, y, direction, obstacle_id) ==
    [x |-> x, y |-> y, direction |-> direction, obstacle_id |-> obstacle_id]

\* A CellState with the key that stands for the identity of the object:
\* the tables are dictionaries keyed by CellState objects, which hash by
\* identity.  <<0, 0>> is the robot's start state, <<i, k>> the k-th view
\* state of the i-th list of get_view_obstacle_positions.
WithRef(c, ref) ==
    [x |-> c.x, y |-> c.y, direction |-> c.direction,
     screenshot_id |-> c.screenshot_id, penalty |-> c.penalty, ref |-> ref]

WithoutRef(c) == CellState(c.x, c.y, c.direction, c.screenshot_id, c.penalty)

\* The requests the model draws from: start poses (the schema allows
\* 0 <= x, y < arena size) and obstacles with unique ids.
StartPoses ==
    {CellState(1, 1, NORTH, None, 0),
     CellState(0, 3, EAST, None, 0),
     CellState(5, 6, WEST, None, 0)}

RequestObstacles ==
    {Obstacle(1, 6, EAST, 1), Obstacle(6, 1, NORTH, 2),
     Obstacle(4, 4, WEST, 3), Obstacle(6, 6, NORTH, 4),
     Obstacle(3, 1, SKIP, 5)}

NoTables ==
    [size_x |-> ARENA_WIDTH, size_y |-> ARENA_HEIGHT,
     neighbor_cache |-> EmptyMap, path_table |-> EmptyMap,
     cost_table |-> EmptyMap, motion_table |-> EmptyMap]

NoRun ==
    [min_dist |-> INF_DIST, optimal_path |-> <<>>, views |-> <<>>,
     options |-> <<>>, mask_idx |-> 0, visit_states |-> <<>>,
     cur_view_positions |-> <<>>, i |-> 0, j |-> 0,
     combinations |-> <<>>, comb_idx |-> 0, error |-> "",
     evaluated |-> {}, path_mask |-> 0, num_iters |-> ITERATIONS,
     call |-> 1, tsp_memo |-> EmptyMap, first |-> [path |-> <<>>, cost |-> 0]]

NoSearch ==
    [start |-> <<>>, end |-> <<>>, g_dist |-> EmptyMap, visited |-> {},
     parent_dict |-> EmptyMap, heap |-> <<>>]

NoOut ==
    [status |-> 0, path |-> <<>>, cost |-> 0, motions |-> <<>>,
     commands |-> <<>>]

NoOrder == [first |-> <<>>, second |-> <<>>, todo1 |-> <<>>, todo2 |-> <<>>]

Init ==
    /\ pc = "setup"
    /\ robot \in {WithRef(c, <<0, 0>>) : c \in StartPoses}
    /\ obstacles = <<>>
    /\ request_ids = {}
    /\ tables = NoTables
    /\ run = NoRun
    /\ astar = NoSearch
    /\ out = NoOut
    /\ order = NoOrder

\* find_path, lines 34-35: maze_solver.add_obstacle for one more obstacle
\* of the request.
AddObstacle(o) ==
    /\ pc = "setup"
    /\ Cardinality(request_ids) < MaxObstacles
    /\ o.obstacle_id \notin request_ids
    /\ obstacles' = add_obstacle(obstacles, o)
    /\ request_ids' = request_ids \cup {o.obstacle_id}
    /\ UNCHANGED <<order, pc, robot, tables, run, astar, out>>

\* The view states of one call of get_optimal_path are new CellState
\* objects: those of the call-th call get references of their own.
FreshViews(views, call) ==
    [i \in 1..Len(views) |->
        [k \in 1..Len(views[i]) |->
            WithRef(views[i][k], <<i + (call - 1) * Len(views), k>>)]]

\* get_optimal_path, lines 88-93: the request holds at least one obstacle.
BeginSolve ==
    /\ pc = "setup"
    /\ request_ids # {}
    /\ LET views == get_view_obstacle_positions(obstacles)
       IN  run' = [NoRun EXCEPT
                     !.views = FreshViews(views, 1),
                     !.options = _get_visit_options(Len(views)),
                     !.mask_idx = 1]
    /\ pc' = "mask"
    /\ UNCHANGED <<order, robot, obstacles, request_ids, tables, astar, out>>

\* The view lists a mask selects: bin_pos[i] = "1" for i in range(num_views).
Selected(views, bin_pos) ==
    LET picked == SelectSeq([i \in 1..Len(views) |-> i],
                            LAMBDA i : bin_pos[i] = "1")
    IN  [n \in 1..Len(picked) |-> views[picked[n]]]

\* Lines 95-106: the next mask, its visit states; or the loop is over and
\* get_optimal_path returns.
StartMask ==
    /\ pc = "mask"
    /\ IF run.mask_idx > Len(run.options)
       THEN /\ pc' = "solved"
            /\ run' = run
       ELSE /\ pc' = "paths"
            /\ LET cur == Selected(run.views, run.options[run.mask_idx])
               IN  run' = [run EXCEPT
                             !.cur_view_positions = cur,
                             !.visit_states = <<robot>> \o Concat(cur),
                             !.i = 1, !.j = 2]
    /\ UNCHANGED <<order, robot, obstacles, request_ids, tables, astar, out>>

\* The pair after (i, j) in the loops of _generate_paths.
NextPair(r) ==
    IF r.j < Len(r.visit_states)
    THEN [r EXCEPT !.j = r.j + 1]
    ELSE [r EXCEPT !.i = r.i + 1, !.j = r.i + 2]

\* _generate_paths calls _astar_search(states[i], states[j]); a pair that
\* path_table holds returns at once (line 206), another starts its search.
SearchPair ==
    /\ pc = "paths"
    /\ run.i <= Len(run.visit_states) - 1
    /\ LET start == run.visit_states[run.i]
           end == run.visit_states[run.j]
       IN  IF <<start.ref, end.ref>> \in DOMAIN tables.path_table
           THEN /\ run' = NextPair(run)
                /\ UNCHANGED <<pc, astar>>
           ELSE /\ astar' = AstarInit(start, end)
                /\ pc' = "astar"
                /\ run' = run
    /\ UNCHANGED <<order, robot, obstacles, request_ids, tables, out>>

\* One iteration of the loop of _astar_search (lines 218-283).
AstarStep ==
    /\ pc = "astar"
    /\ astar.heap # <<>>
    /\ LET r == AstarIteration(astar, tables, obstacles)
       IN  /\ tables' = r.tables
           /\ IF r.returned
              THEN /\ astar' = NoSearch
                   /\ pc' = "paths"
                   /\ run' = NextPair(run)
              ELSE /\ astar' = r.a
                   /\ UNCHANGED <<pc, run>>
    /\ UNCHANGED <<order, robot, obstacles, request_ids, out>>

\* A search that raises when its heap is empty.
AstarExhausted_raise ==
    /\ pc = "astar"
    /\ astar.heap = <<>>
    /\ astar' = NoSearch
    /\ pc' = "solved"
    /\ run' = [run EXCEPT !.error = "no path"]
    /\ UNCHANGED <<order, robot, obstacles, request_ids, tables, out>>

\* The heap is empty: the loop ends and _astar_search returns with nothing
\* recorded for the pair.
AstarExhausted ==
    /\ pc = "astar"
    /\ astar.heap = <<>>
    /\ astar' = NoSearch
    /\ pc' = "paths"
    /\ run' = NextPair(run)
    /\ UNCHANGED <<order, robot, obstacles, request_ids, tables, out>>

\* Lines 109-111: every pair searched, the combinations of the mask.
PathsDone ==
    /\ pc = "paths"
    /\ run.i > Len(run.visit_states) - 1
    /\ run' = [run EXCEPT
                 !.combinations =
                     _generate_combinations(run.cur_view_positions, 1, <<>>, <<>>,
                                            run.num_iters),
                 !.comb_idx = 1]
    /\ pc' = "combos"
    /\ UNCHANGED <<order, robot, obstacles, request_ids, tables, astar, out>>

\* The record of one evaluated combination: the mask it belongs to and the
\* value distance + cost that line 150 compares with min_dist.
Evaluated(r, total) == [mask |-> r.mask_idx, total |-> total]

\* A solver that is a function of its cost matrix: the result it gave for
\* a matrix before, any result for a matrix it meets for the first time.
solve_tsp_memoised(cost_matrix, last) ==
    IF cost_matrix \in DOMAIN run.tsp_memo
    THEN {run.tsp_memo[cost_matrix]}
    ELSE solve_tsp_lin_kernighan(cost_matrix, last)

\* Lines 114-183 for one combination.  evaluated and path_mask keep the
\* history of the loop: every value compared at line 150, and the mask
\* during which optimal_path was last assigned.  With memoised set, the
\* solver is a function of its cost matrix and tsp_memo keeps the result it
\* gave for each matrix.
EvalCombinationWith(memoised) ==
    /\ pc = "combos"
    /\ run.comb_idx <= Len(run.combinations)
    /\ LET combination == run.combinations[run.comb_idx]
           visited == VisitedOf(run.cur_view_positions, combination)
           cost == PenaltyOf(run.cur_view_positions, combination)
           cost_matrix == CostMatrix(tables.cost_table, run.visit_states, visited)
           tours == IF memoised
                    THEN solve_tsp_memoised(cost_matrix, Len(visited) - 1)
                    ELSE solve_tsp_lin_kernighan(cost_matrix, Len(visited) - 1)
       IN  \E tsp \in tours :
              LET memo == IF memoised THEN Put(run.tsp_memo, cost_matrix, tsp)
                          ELSE run.tsp_memo
              IN
              IF tsp.distance + cost >= run.min_dist
              THEN /\ run' = [run EXCEPT
                                !.comb_idx = @ + 1,
                                !.evaluated = @ \cup {Evaluated(run, tsp.distance + cost)},
                                !.tsp_memo = memo]
                   /\ UNCHANGED <<pc, robot>>
              ELSE LET st == Stitch([optimal_path |-> <<WithoutRef(robot)>>,
                                     robot |-> robot, error |-> ""],
                                    1, tsp.permutation, visited, run.visit_states,
                                    tables.path_table, obstacles)
                   IN  /\ run' = [run EXCEPT
                                    !.min_dist = tsp.distance + cost,
                                    !.optimal_path = st.optimal_path,
                                    !.error = st.error,
                                    !.comb_idx = @ + 1,
                                    !.evaluated =
                                        @ \cup {Evaluated(run, tsp.distance + cost)},
                                    !.path_mask = run.mask_idx,
                                    !.tsp_memo = memo]
                       /\ robot' = st.robot
                       /\ pc' = IF st.error # "" THEN "solved" ELSE pc
    /\ UNCHANGED <<order, obstacles, request_ids, tables, astar, out>>

\* Lines 114-183 with a solver that may answer anything it can answer.
EvalCombination == EvalCombinationWith(FALSE)

\* An end of mask that goes on with the next mask also when a path was
\* found.
EndMask_no_return ==
    /\ pc = "combos"
    /\ run.comb_idx > Len(run.combinations)
    /\ pc' = "mask"
    /\ run' = [run EXCEPT !.mask_idx = @ + 1]
    /\ UNCHANGED <<order, robot, obstacles, request_ids, tables, astar, out>>

\* Lines 185-187: after the combinations of a mask, return the path when
\* there is one, else go on with the next mask.
EndMask ==
    /\ pc = "combos"
    /\ run.comb_idx > Len(run.combinations)
    /\ IF run.optimal_path # <<>>
       THEN /\ pc' = "solved"
            /\ run' = run
       ELSE /\ pc' = "mask"
            /\ run' = [run EXCEPT !.mask_idx = @ + 1]
    /\ UNCHANGED <<order, robot, obstacles, request_ids, tables, astar, out>>

\* The path get_optimal_path returns: its first pose is the robot's start
\* CellState object.
ReturnedPath ==
    IF run.optimal_path = <<>> THEN <<>>
    ELSE <<WithoutRef(robot)>> \o Tail(run.optimal_path)

\* find_path, lines 43-75: 422 for an empty path, else the motions and
\* the commands; 500 for an exception.
Respond ==
    /\ pc = "solved"
    /\ pc' = "done"
    /\ LET path == ReturnedPath
           compiled == optimal_path_to_motion_path(path, tables.motion_table,
                                                   obstacles)
       IN  out' =
             IF run.error # "" THEN [NoOut EXCEPT !.status = 500]
             ELSE IF path = <<>> THEN [NoOut EXCEPT !.status = 422]
             ELSE IF compiled.error # "" THEN [NoOut EXCEPT !.status = 500]
             ELSE [status |-> 200, path |-> path, cost |-> run.min_dist,
                   motions |-> compiled.motion_path,
                   commands |-> generate_commands(compiled.motion_path,
                                    compiled.obstacle_id_with_signals,
                                    compiled.scanned_obstacles, path)]
    /\ UNCHANGED <<order, robot, obstacles, request_ids, tables, run, astar>>

Next ==
    \/ \E o \in RequestObstacles : AddObstacle(o)
    \/ BeginSolve
    \/ StartMask
    \/ SearchPair
    \/ AstarStep
    \/ AstarExhausted
    \/ PathsDone
    \/ EvalCombination
    \/ EndMask
    \/ Respond

Spec == Init /\ [][Next]_vars

(***************************************************************************)
(* get_optimal_path called twice on one MazeSolver, the obstacles          *)
(* unchanged, with a solver that is a function of its cost matrix: any     *)
(* function, chosen as the calls go and remembered in tsp_memo.            *)
(***************************************************************************)
EvalCombinationMemo == EvalCombinationWith(TRUE)

\* A second call that starts from the min_dist the first call ended with.
SolveAgain_keep_min_dist ==
    /\ pc = "solved"
    /\ run.call = 1
    /\ run.error = ""
    /\ LET views == get_view_obstacle_positions(obstacles)
       IN  run' = [NoRun EXCEPT
                     !.views = FreshViews(views, 2),
                     !.options = _get_visit_options(Len(views)),
                     !.mask_idx = 1,
                     !.call = 2,
                     !.tsp_memo = run.tsp_memo,
                     !.min_dist = run.min_dist,
                     !.first = [path |-> ReturnedPath, cost |-> run.min_dist]]
    /\ pc' = "mask"
    /\ UNCHANGED <<order, robot, obstacles, request_ids, tables, astar, out>>

\* The second call, lines 88-93: min_dist, optimal_path and the views are
\* new; the robot's start state and the solver's four tables are those the
\* first call left.  first keeps what the first call returned.
SolveAgain ==
    /\ pc = "solved"
    /\ run.call = 1
    /\ run.error = ""
    /\ LET views == get_view_obstacle_positions(obstacles)
       IN  run' = [NoRun EXCEPT
                     !.views = FreshViews(views, 2),
                     !.options = _get_visit_options(Len(views)),
                     !.mask_idx = 1,
                     !.call = 2,
                     !.tsp_memo = run.tsp_memo,
                     !.first = [path |-> ReturnedPath, cost |-> run.min_dist]]
    /\ pc' = "mask"
    /\ UNCHANGED <<order, robot, obstacles, request_ids, tables, astar, out>>

\* The obstacles of the requests that are solved twice.
TwiceObstacles ==
    {Obstacle(1, 6, EAST, 1), Obstacle(4, 4, WEST, 3), Obstacle(6, 6, NORTH, 4)}

TwiceNext ==
    \/ \E o \in TwiceObstacles : AddObstacle(o)
    \/ BeginSolve
    \/ StartMask
    \/ SearchPair
    \/ AstarStep
    \/ AstarExhausted
    \/ PathsDone
    \/ EvalCombinationMemo
    \/ EndMask
    \/ SolveAgain

SpecTwice == Init /\ [][TwiceNext]_vars

(***************************************************************************)
(* The searches of one request in a Grid wide enough for two poses to lie  *)
(* more than a dozen cells apart, the distance at which the Manhattan      *)
(* estimate outweighs the cost of two turns.                               *)
(***************************************************************************)
WideGridSize == 16

WideStartPoses == {CellState(14, 8, NORTH, None, 0)}

WideObstacles == {Obstacle(1, 9, SOUTH, 1)}

SearchInit ==
    /\ pc = "setup"
    /\ robot \in {WithRef(c, <<0, 0>>) : c \in WideStartPoses}
    /\ obstacles = <<>>
    /\ request_ids = {}
    /\ tables = [NoTables EXCEPT !.size_x = WideGridSize,
                                 !.size_y = WideGridSize]
    /\ run = NoRun
    /\ astar = NoSearch
    /\ out = NoOut
    /\ order = NoOrder

SearchNext ==
    \/ \E o \in WideObstacles : AddObstacle(o)
    \/ BeginSolve
    \/ StartMask
    \/ SearchPair
    \/ AstarStep

SpecSearch == SearchInit /\ [][SearchNext]_vars

(***************************************************************************)
(* The mask loop of get_optimal_path on requests whose obstacles have no   *)
(* viewpoint at all (they sit on the top row and face north): every mask   *)
(* that selects an obstacle has no combination, so the loop walks the      *)
(* whole list of masks.                                                    *)
(***************************************************************************)
MaxMaskBits == 6

\* Grid.obstacles after add_obstacle of n obstacles of the top row.
TopRowObstacles(n) ==
    [i \in 1..n |-> Obstacle(i - 1, ARENA_HEIGHT - 1, NORTH, i)]

MasksInit ==
    /\ pc = "setup"
    /\ robot = WithRef(CellState(1, 1, NORTH, None, 0), <<0, 0>>)
    /\ \E n \in 1..MaxMaskBits :
          /\ obstacles = TopRowObstacles(n)
          /\ request_ids = 1..n
    /\ tables = NoTables
    /\ run = NoRun
    /\ astar = NoSearch
    /\ out = NoOut
    /\ order = NoOrder

MasksNext ==
    \/ BeginSolve
    \/ StartMask
    \/ PathsDone
    \/ EvalCombination
    \/ EndMask
    \/ Respond

SpecMasks == MasksInit /\ [][MasksNext]_vars

(***************************************************************************)
(* Two Grids that receive the obstacles of one request in two orders       *)
(* (find_path, lines 34-35, for two requests).                             *)
(***************************************************************************)
MaxOrderObstacles == 3

\* Obstacles with unique ids; 1 and 3 share a cell, 1 and 4 a cell and a
\* face.
OrderObstacles ==
    {Obstacle(1, 6, EAST, 1), Obstacle(6, 1, NORTH, 2),
     Obstacle(1, 6, SOUTH, 3), Obstacle(1, 6, EAST, 4)}

\* The orders in which a set of obstacles can be listed.
OrdersOf(S) ==
    {s \in [1..Cardinality(S) -> S] :
        \A a, b \in 1..Cardinality(S) : a # b => s[a] # s[b]}

OrderInit ==
    /\ pc = "setup"
    /\ robot = WithRef(CellState(1, 1, NORTH, None, 0), <<0, 0>>)
    /\ obstacles = <<>>
    /\ request_ids = {}
    /\ tables = NoTables
    /\ run = NoRun
    /\ astar = NoSearch
    /\ out = NoOut
    /\ \E S \in SUBSET OrderObstacles :
          /\ S # {}
          /\ Cardinality(S) <= MaxOrderObstacles
          /\ \E s1, s2 \in OrdersOf(S) :
                order = [first |-> <<>>, second |-> <<>>,
                         todo1 |-> s1, todo2 |-> s2]

\* add_obstacle of the next obstacle of the first request.
AddToFirst ==
    /\ order.todo1 # <<>>
    /\ order' = [order EXCEPT
                   !.first = add_obstacle(@, Head(order.todo1)),
                   !.todo1 = Tail(@)]
    /\ UNCHANGED <<pc, robot, obstacles, request_ids, tables, run, astar, out>>

\* add_obstacle of the next obstacle of the second request.
AddToSecond ==
    /\ order.todo2 # <<>>
    /\ order' = [order EXCEPT
                   !.second = add_obstacle(@, Head(order.todo2)),
                   !.todo2 = Tail(@)]
    /\ UNCHANGED <<pc, robot, obstacles, request_ids, tables, run, astar, out>>

OrderNext ==
    \/ AddToFirst
    \/ AddToSecond

SpecOrder == OrderInit /\ [][OrderNext]_vars

(***************************************************************************)
(* _generate_combinations on view lists of every size and for every        *)
(* budget num_iters, applied as get_optimal_path applies it (lines         *)
(* 109-111) once the paths of a mask are searched.                         *)
(***************************************************************************)
MaxLists == 3
MaxViews == 3
MaxBudget == 4

\* n view lists of the given sizes.
ViewLists(sizes) ==
    [i \in 1..Len(sizes) |->
        [k \in 1..sizes[i] |->
            WithRef(CellState(1, 1, NORTH, <<i>>, 0), <<i, k>>)]]

CombosInit ==
    /\ pc = "paths"
    /\ robot = WithRef(CellState(1, 1, NORTH, None, 0), <<0, 0>>)
    /\ obstacles = <<>>
    /\ request_ids = {}
    /\ tables = NoTables
    /\ \E n \in 1..MaxLists : \E sizes \in [1..n -> 0..MaxViews] :
       \E budget \in 1..MaxBudget :
          run = [NoRun EXCEPT
                   !.cur_view_positions = ViewLists(sizes),
                   !.visit_states = <<robot>> \o Concat(ViewLists(sizes)),
                   !.i = Len(Concat(ViewLists(sizes))) + 1,
                   !.num_iters = budget]
    /\ astar = NoSearch
    /\ out = NoOut
    /\ order = NoOrder

CombosNext == PathsDone

SpecCombos == CombosInit /\ [][CombosNext]_vars

(***************************************************************************)
(* A Grid under any sequence of add_obstacle and reset_obstacles calls.    *)
(***************************************************************************)
\* Obstacles 1 and 3 share a cell, 1 and 4 a cell and a face; 6 has no face
\* to view.
GridObstacles ==
    {Obstacle(1, 6, EAST, 1), Obstacle(6, 1, NORTH, 2),
     Obstacle(1, 6, SOUTH, 3), Obstacle(1, 6, EAST, 4),
     Obstacle(4, 4, WEST, 5), Obstacle(3, 1, SKIP, 6),
     Obstacle(3, 3, NORTH, 7)}

GridInit ==
    /\ pc = "setup"
    /\ robot = WithRef(CellState(1, 1, NORTH, None, 0), <<0, 0>>)
    /\ obstacles = <<>>
    /\ request_ids = {}
    /\ tables = NoTables
    /\ run = NoRun
    /\ astar = NoSearch
    /\ out = NoOut
    /\ order = NoOrder

GridAdd(o) ==
    /\ obstacles' = add_obstacle(obstacles, o)
    /\ UNCHANGED <<pc, robot, request_ids, tables, run, astar, out, order>>

GridReset ==
    /\ obstacles # <<>>
    /\ obstacles' = reset_obstacles
    /\ UNCHANGED <<pc, robot, request_ids, tables, run, astar, out, order>>

GridNext ==
    \/ \E o \in GridObstacles : GridAdd(o)
    \/ GridReset

SpecGrid == GridInit /\ [][GridNext]_vars

(***************************************************************************)
(* Properties of the returned path.                                        *)
(***************************************************************************)
\* The positions of the tagged poses of a path.
Tagged(path) == {i \in 1..Len(path) : path[i].screenshot_id # None}

\* The positions of the SNAP commands of a command list.
Snaps(commands) == {i \in 1..Len(commands) : commands[i][1] = "SNAP"}

\* C1: every pose of the path get_optimal_path returns, the first (the
\* robot's start pose) included, lies in the interior of the arena:
\* 1 <= x <= width - 2 and 1 <= y <= height - 2.
C1_PosesInterior ==
    pc = "solved" =>
        \A i \in 1..Len(ReturnedPath) :
            /\ 1 <= ReturnedPath[i].x /\ ReturnedPath[i].x <= ARENA_WIDTH - 2
            /\ 1 <= ReturnedPath[i].y /\ ReturnedPath[i].y <= ARENA_HEIGHT - 2

\* The unit vector of a cardinal direction.
UnitVector(d) ==
    CASE d = NORTH -> <<0, 1>> [] d = EAST -> <<1, 0>>
      [] d = SOUTH -> <<0, -1>> [] d = WEST -> <<-1, 0>>

\* The sixteen turn entries <<from, to, dx, dy>> of the displacement table,
\* with the long displacement 2 and the short displacement 1.
TurnEntries ==
    {<<NORTH, EAST, 2, 1>>, <<NORTH, EAST, -1, -2>>,
     <<EAST, NORTH, 1, 2>>, <<EAST, NORTH, -2, -1>>,
     <<EAST, SOUTH, 1, -2>>, <<EAST, SOUTH, -2, 1>>,
     <<SOUTH, EAST, 2, -1>>, <<SOUTH, EAST, -1, 2>>,
     <<SOUTH, WEST, -2, -1>>, <<SOUTH, WEST, 1, 2>>,
     <<WEST, SOUTH, -1, -2>>, <<WEST, SOUTH, 2, 1>>,
     <<WEST, NORTH, -1, 2>>, <<WEST, NORTH, 2, -1>>,
     <<NORTH, WEST, -2, 1>>, <<NORTH, WEST, 1, -2>>}

StraightPair(p, q) ==
    /\ q.direction = p.direction
    /\ \/ <<q.x - p.x, q.y - p.y>> = UnitVector(p.direction)
       \/ <<p.x - q.x, p.y - q.y>> = UnitVector(p.direction)

TurnPair(p, q) ==
    <<p.direction, q.direction, q.x - p.x, q.y - p.y>> \in TurnEntries

\* C2: every consecutive pair (p, q) of the returned path is a straight
\* step along p's direction or one of the sixteen turn entries, whether
\* the leg was stored in search orientation or comes from the stored
\* reverse; no pair flips the direction by 180 degrees.
C2_LegalPairs ==
    pc = "solved" /\ run.error = "" =>
        \A i \in 1..(Len(ReturnedPath) - 1) :
            \/ StraightPair(ReturnedPath[i], ReturnedPath[i + 1])
            \/ TurnPair(ReturnedPath[i], ReturnedPath[i + 1])

\* The obstacle id of the n-th view list the current mask selects.
SelectedId(n) == run.cur_view_positions[n][1].screenshot_id[1]

\* A returned path that visits the second selected obstacle before the
\* first, so that a leg comes from the reversed orientation of a search,
\* and that holds a turn.
C2_Witness ==
    /\ pc = "solved" /\ run.error = ""
    /\ Len(run.cur_view_positions) = 2
    /\ \E i, j \in Tagged(ReturnedPath) :
          /\ i < j
          /\ ReturnedPath[i].screenshot_id[1] = SelectedId(2)
          /\ ReturnedPath[j].screenshot_id[1] = SelectedId(1)
          /\ \E k \in i..(j - 1) : TurnPair(ReturnedPath[k], ReturnedPath[k + 1])

\* C3: whenever (a, b) is a key of cost_table or of path_table, (b, a) is
\* a key too, both costs are equal, and the path of (b, a) is the path of
\* (a, b) reversed; this holds after every step of every search.
C3_TablesSymmetric ==
    /\ DOMAIN tables.cost_table = DOMAIN tables.path_table
    /\ \A k \in DOMAIN tables.path_table :
          /\ <<k[2], k[1]>> \in DOMAIN tables.path_table
          /\ tables.cost_table[<<k[2], k[1]>>] = tables.cost_table[k]
          /\ tables.path_table[<<k[2], k[1]>>] = Reverse(tables.path_table[k])

\* Two searches have recorded their paths, one of them of several poses.
C3_Witness ==
    /\ Cardinality(DOMAIN tables.path_table) >= 4
    /\ \E k \in DOMAIN tables.path_table :
          /\ Len(tables.path_table[k]) >= 3
          /\ tables.path_table[k] # Reverse(tables.path_table[k])

\* C5: for every returned path, the path of the start pose alone included,
\* generate_commands yields a non-empty list whose last command is FIN.
C5_CommandsEndWithFin ==
    pc = "done" /\ out.status = 200 =>
        /\ out.commands # <<>>
        /\ out.commands[Len(out.commands)][1] = "FIN"

\* C6: the number of SNAP commands equals the number of tagged poses of
\* the returned path, a tagged first pose included.
C6_SnapPerTaggedPose ==
    pc = "done" /\ out.status = 200 =>
        Cardinality(Snaps(out.commands)) = Cardinality(Tagged(out.path))

\* C7: every obstacle the returned mask selects has exactly one tagged
\* pose in the path and exactly one SNAP command, also when the connecting
\* sub-path has a single pose.
C7_OneTagOneSnapPerSelected ==
    pc = "done" /\ out.status = 200 =>
        \A n \in 1..Len(run.cur_view_positions) :
            /\ Cardinality({i \in Tagged(out.path) :
                              out.path[i].screenshot_id[1] = SelectedId(n)}) = 1
            /\ Cardinality({i \in Snaps(out.commands) :
                              out.commands[i][2] = SelectedId(n)}) = 1

\* The masks (positions in options) with a combination whose distance
\* plus penalties was below 1e9.
FeasibleMasks == {e.mask : e \in {v \in run.evaluated : v.total < INF_DIST}}

\* C8: when no mask that selects an obstacle produces a path, the route
\* answers 422 for the empty path; it never answers with a path that visits
\* no obstacle.
C8_NoPathGives422 ==
    pc = "done" /\ run.error = ""
    /\ (\A m \in FeasibleMasks : CountOnes(run.options[m]) = 0) =>
        out.status = 422

\* C10: if the returned path belongs to a mask that selects k obstacles, no
\* mask that selects more than k obstacles had a combination whose distance
\* plus penalties was below 1e9.
C10_MostObstaclesFeasible ==
    pc = "solved" /\ run.error = "" /\ ReturnedPath # <<>> =>
        \A m \in FeasibleMasks :
            CountOnes(run.options[m]) <= CountOnes(run.options[run.path_mask])

\* A path returned for a mask smaller than the full one, after a
\* combination of a larger mask was evaluated and found infeasible.
C10_Witness ==
    /\ pc = "solved" /\ run.error = ""
    /\ Len(ReturnedPath) > 1
    /\ CountOnes(run.options[run.path_mask]) = 1
    /\ \E e \in run.evaluated :
          /\ CountOnes(run.options[e.mask]) = 2
          /\ e.total >= INF_DIST

\* C4: whatever the order in which one set of obstacles is passed to
\* add_obstacle, the resulting Grid.obstacles list is the same (and with
\* it the view lists the solver works on).
C4_OrderIndependent ==
    order.todo1 = <<>> /\ order.todo2 = <<>> =>
        /\ order.first = order.second
        /\ get_view_obstacle_positions(order.first)
               = get_view_obstacle_positions(order.second)

\* The numeric value of a mask.
RECURSIVE BinValue(_)
BinValue(str) ==
    IF str = <<>> THEN 0
    ELSE 2 * BinValue(SubSeq(str, 1, Len(str) - 1))
         + (IF str[Len(str)] = "1" THEN 1 ELSE 0)

\* C9: the masks are evaluated one after the other in the order of
\* _get_visit_options(n): the number of selected obstacles never increases
\* from a mask to the next, masks that select as many obstacles come in
\* increasing numeric value, and each of the 2^n masks appears exactly once.
C9_MaskOrder ==
    /\ [](pc # "setup" =>
            /\ Len(run.options) = Pow2(Len(run.views))
            /\ {run.options[i] : i \in 1..Len(run.options)}
                   = [1..Len(run.views) -> {"0", "1"}]
            /\ \A i \in 1..(Len(run.options) - 1) :
                  /\ CountOnes(run.options[i]) >= CountOnes(run.options[i + 1])
                  /\ CountOnes(run.options[i]) = CountOnes(run.options[i + 1])
                        => BinValue(run.options[i]) < BinValue(run.options[i + 1]))
    /\ [][run'.mask_idx # run.mask_idx => run'.mask_idx = run.mask_idx + 1]_vars

\* The loop is at a mask of the widest list that selects as many obstacles
\* as the mask before it, several of them, and has the larger value.
C9_Witness ==
    /\ pc = "paths"
    /\ Len(run.views) = MaxMaskBits
    /\ run.mask_idx >= 2
    /\ CountOnes(run.options[run.mask_idx]) >= 2
    /\ CountOnes(run.options[run.mask_idx])
           = CountOnes(run.options[run.mask_idx - 1])
    /\ BinValue(run.options[run.mask_idx - 1]) < BinValue(run.options[run.mask_idx])

(***************************************************************************)
(* Properties of the Grid.                                                 *)
(***************************************************************************)
\* C13: after any sequence of add_obstacle and reset_obstacles calls the
\* list is sorted by (x, y) in non-decreasing lexicographic order, holds no
\* two obstacles with the same (x, y, direction), and adding an obstacle
\* equal in (x, y, direction) to a stored one leaves it unchanged.
C13_SortedNoDuplicates ==
    /\ \A i, j \in 1..Len(obstacles) :
          i < j =>
            /\ \/ obstacles[i].x < obstacles[j].x
               \/ /\ obstacles[i].x = obstacles[j].x
                  /\ obstacles[i].y <= obstacles[j].y
            /\ ~(/\ obstacles[i].x = obstacles[j].x
                 /\ obstacles[i].y = obstacles[j].y
                 /\ obstacles[i].direction = obstacles[j].direction)
    /\ \A o \in GridObstacles :
          (\E i \in 1..Len(obstacles) :
              /\ obstacles[i].x = o.x /\ obstacles[i].y = o.y
              /\ obstacles[i].direction = o.direction)
          => add_obstacle(obstacles, o) = obstacles

\* Three obstacles or more, two of them in one cell, and an obstacle not yet
\* stored that equals a stored one in (x, y, direction).
C13_Witness ==
    /\ Len(obstacles) >= 3
    /\ \E i \in 1..(Len(obstacles) - 1) :
          /\ obstacles[i].x = obstacles[i + 1].x
          /\ obstacles[i].y = obstacles[i + 1].y
    /\ \E o \in GridObstacles :
          /\ \A i \in 1..Len(obstacles) : obstacles[i] # o
          /\ \E i \in 1..Len(obstacles) : ObstacleEq(o, obstacles[i])

\* The interior cells of the arena.
InteriorCells ==
    {<<x, y>> : x \in 1..(ARENA_WIDTH - 2), y \in 1..(ARENA_HEIGHT - 2)}

Chebyshev(o, c) == Max2(Abs(o.x - c[1]), Abs(o.y - c[2]))

Manhattan(o, c) == Abs(o.x - c[1]) + Abs(o.y - c[2])

\* C14 as stated: for every interior cell, reachable is true exactly when
\* the Chebyshev distance to every obstacle is at least 2.
C14_ChebyshevClearance ==
    \A c \in InteriorCells :
        reachable(obstacles, c[1], c[2])
        <=> \A i \in 1..Len(obstacles) : Chebyshev(obstacles[i], c) >= 2

\* C14 amended: for every interior cell, reachable is true exactly when,
\* for every obstacle, the Chebyshev distance is at least 2 and the
\* Manhattan distance is at least 3.
C14_ChebyshevAndManhattan ==
    \A c \in InteriorCells :
        reachable(obstacles, c[1], c[2])
        <=> \A i \in 1..Len(obstacles) :
                /\ Chebyshev(obstacles[i], c) >= 2
                /\ Manhattan(obstacles[i], c) >= 3

\* Several obstacles, an interior cell two cells from an obstacle along an
\* axis that is not reachable for that reason alone, and a reachable cell
\* at Chebyshev distance 2 of an obstacle.
C14_Witness ==
    /\ Len(obstacles) >= 2
    /\ \E c \in InteriorCells :
          /\ ~reachable(obstacles, c[1], c[2])
          /\ \A i \in 1..Len(obstacles) : Chebyshev(obstacles[i], c) >= 2
    /\ \E c \in InteriorCells :
          /\ reachable(obstacles, c[1], c[2])
          /\ \E i \in 1..Len(obstacles) : Chebyshev(obstacles[i], c) = 2

\* The obstacles that have a face to view, in list order.
Viewable(obs) == SelectSeq(obs, LAMBDA o : o.direction # SKIP)

\* The distance of a pose from an obstacle along the axis of the
\* obstacle's face, and its offset across that axis.
AlongFace(o, v) ==
    CASE o.direction = NORTH -> v.y - o.y
      [] o.direction = SOUTH -> o.y - v.y
      [] o.direction = EAST -> v.x - o.x
      [] o.direction = WEST -> o.x - v.x

AcrossFace(o, v) ==
    IF o.direction \in {NORTH, SOUTH} THEN Abs(v.x - o.x) ELSE Abs(v.y - o.y)

OppositeFace(d) == (d + 4) % 8

\* C15: every viewpoint returned for an obstacle o is interior, reachable
\* against every obstacle of the grid, faces the direction opposite to o's
\* face, carries o's id and the penalty of its variant: 1100 for a lateral
\* offset at distance 3, 0 for the centred pose at distance 4, 1000 for the
\* centred pose at distance 3.
C15_Viewpoints ==
    LET views == get_view_obstacle_positions(obstacles)
    IN  /\ Len(views) = Len(Viewable(obstacles))
        /\ \A i \in 1..Len(views) : \A k \in 1..Len(views[i]) :
              LET v == views[i][k]
                  o == Viewable(obstacles)[i]
              IN  /\ 1 <= v.x /\ v.x <= ARENA_WIDTH - 2
                  /\ 1 <= v.y /\ v.y <= ARENA_HEIGHT - 2
                  /\ \A j \in 1..Len(obstacles) :
                        /\ Chebyshev(obstacles[j], <<v.x, v.y>>) >= 2
                        /\ Manhattan(obstacles[j], <<v.x, v.y>>) >= 3
                  /\ reachable(obstacles, v.x, v.y)
                  /\ v.direction = OppositeFace(o.direction)
                  /\ v.screenshot_id = <<o.obstacle_id>>
                  /\ \/ AcrossFace(o, v) = 1 /\ AlongFace(o, v) = 3
                        /\ v.penalty = 1100
                     \/ AcrossFace(o, v) = 0 /\ AlongFace(o, v) = 4
                        /\ v.penalty = 0
                     \/ AcrossFace(o, v) = 0 /\ AlongFace(o, v) = 3
                        /\ v.penalty = 1000

\* An obstacle keeps a viewpoint and loses another one to a second
\* obstacle, and an obstacle has viewpoints of the three variants.
C15_Witness ==
    LET views == get_view_obstacle_positions(obstacles)
    IN  /\ \E i \in 1..Len(views) :
              /\ views[i] # <<>>
              /\ \E c \in Range(get_view_state(Viewable(obstacles)[i])) :
                    /\ reachable(<<Viewable(obstacles)[i]>>, c.x, c.y)
                    /\ ~reachable(obstacles, c.x, c.y)
        /\ \E i \in 1..Len(views) :
              {views[i][k].penalty : k \in 1..Len(views[i])} = {0, 1000, 1100}

\* C18: for every list of view lists and every budget num_iters,
\* _generate_combinations returns at most num_iters combinations.
C18_BudgetBound ==
    pc = "combos" => Len(run.combinations) <= run.num_iters

(***************************************************************************)
(* Properties of the search.                                               *)
(***************************************************************************)
\* The entry the next heappop of the search in progress hands out, and its
\* place in the heap; the heap lists its entries in the order of the pushes.
NextPopped == astar.heap[HeapMinIndex(astar.heap)]

\* C20 as stated: among the heap entries of equal f, the entry pushed
\* earlier is dequeued earlier.
C20_InsertionOrder ==
    pc = "astar" /\ astar.heap # <<>> =>
        \A j \in 1..(HeapMinIndex(astar.heap) - 1) :
            astar.heap[j][1] # NextPopped[1]

\* C20 amended: among the heap entries of equal f, the entry with the
\* smaller (x, y, direction), compared in that order, is dequeued earlier,
\* whatever the order of the pushes.
C20_CoordinateOrder ==
    pc = "astar" /\ astar.heap # <<>> =>
        /\ \A j \in 1..Len(astar.heap) : NextPopped[1] <= astar.heap[j][1]
        /\ \A j \in 1..Len(astar.heap) :
              astar.heap[j][1] = NextPopped[1] =>
                \/ NextPopped[2] < astar.heap[j][2]
                \/ /\ NextPopped[2] = astar.heap[j][2]
                   /\ NextPopped[3] < astar.heap[j][3]
                \/ /\ NextPopped[2] = astar.heap[j][2]
                   /\ NextPopped[3] = astar.heap[j][3]
                   /\ NextPopped[4] <= astar.heap[j][4]

\* The entry about to be dequeued was pushed after another entry of the
\* same f.
C20_Witness ==
    /\ pc = "astar" /\ astar.heap # <<>>
    /\ \E j \in 1..(HeapMinIndex(astar.heap) - 1) :
          /\ astar.heap[j][1] = NextPopped[1]
          /\ astar.heap[j] # NextPopped

\* The keys of path_table in the orientation of the search that wrote them:
\* _generate_paths searches from every visit state to the later ones.
SearchKeys ==
    {k \in DOMAIN tables.path_table :
        \/ k[1][1] < k[2][1]
        \/ k[1][1] = k[2][1] /\ k[1][2] < k[2][2]}

\* C19: every pose of a recorded path other than the start of its search
\* satisfies Grid.reachable, the poses entered by a turn included.
C19_PathPosesReachable ==
    \A k \in SearchKeys :
        \A i \in 2..Len(tables.path_table[k]) :
            reachable(obstacles, tables.path_table[k][i][1],
                      tables.path_table[k][i][2])

(***************************************************************************)
(* Properties of the mask loop.                                            *)
(***************************************************************************)
\* The masks (positions in options) that select as many obstacles as the
\* mask of the returned path.
SamePopcountMasks ==
    {m \in 1..Len(run.options) :
        CountOnes(run.options[m]) = CountOnes(run.options[run.path_mask])}

\* C17 as stated: once a mask with k selected obstacles has produced a
\* path, every other mask with k selected obstacles is evaluated too before
\* the loop ends, the returned path being the best of that popcount.
C17_WholePopcountEvaluated ==
    pc = "solved" /\ run.error = "" /\ ReturnedPath # <<>> =>
        \A m \in SamePopcountMasks : m <= run.mask_idx

\* C17 amended: the mask loop ends with the first mask that produces a
\* path: no later mask is started, not even one with as many obstacles, no
\* earlier mask had a feasible combination, and the returned cost is the
\* least of the values compared for the combinations of that one mask.
C17_FirstFeasibleMaskWins ==
    pc = "solved" /\ run.error = "" /\ ReturnedPath # <<>> =>
        /\ run.mask_idx = run.path_mask
        /\ \A e \in run.evaluated :
              /\ e.mask <= run.path_mask
              /\ e.mask < run.path_mask => e.total >= INF_DIST
              /\ e.mask = run.path_mask => run.min_dist <= e.total
        /\ \E e \in run.evaluated :
              e.mask = run.path_mask /\ e.total = run.min_dist

\* A path returned for a mask that is followed by a mask of the same
\* number of obstacles, which is never started.
C17_Witness ==
    /\ pc = "solved" /\ run.error = ""
    /\ Len(ReturnedPath) > 1
    /\ \E m \in SamePopcountMasks : m > run.mask_idx

(***************************************************************************)
(* Obstacles without a face.                                               *)
(***************************************************************************)
\* The ids of the obstacles whose direction is SKIP.
SkipIds ==
    {obstacles[i].obstacle_id :
        i \in {j \in 1..Len(obstacles) : obstacles[j].direction = SKIP}}

\* C12: the view lists the solver works on hold one entry, possibly empty,
\* per non-SKIP obstacle, in the order of the obstacle list, and none for a
\* SKIP obstacle; no SNAP command of the answer carries the id of a SKIP
\* obstacle.
C12_SkipHasNoViewsNoSnap ==
    pc # "setup" =>
        /\ Len(run.views) = Len(Viewable(obstacles))
        /\ \A i \in 1..Len(run.views) :
              \A k \in 1..Len(run.views[i]) :
                  run.views[i][k].screenshot_id
                      = <<Viewable(obstacles)[i].obstacle_id>>
        /\ pc = "done" =>
              \A i \in Snaps(out.commands) : out.commands[i][2] \notin SkipIds

\* An answer with a SNAP command for a request that holds a SKIP obstacle
\* listed before the obstacle that is visited.
C12_Witness ==
    /\ pc = "done" /\ out.status = 200
    /\ Snaps(out.commands) # {}
    /\ Len(obstacles) = 2
    /\ obstacles[1].direction = SKIP
    /\ run.views[1] # <<>>

(***************************************************************************)
(* Two calls on one solver.                                                *)
(***************************************************************************)
\* C11: with a solver that is a function of its cost matrix, the second
\* call of get_optimal_path on the same MazeSolver returns the pose
\* sequence, the screenshot tags and the cost the first call returned.
C11_SecondCallSame ==
    pc = "solved" /\ run.call = 2 /\ run.error = "" =>
        /\ ReturnedPath = run.first.path
        /\ run.min_dist = run.first.cost

\* The second call has returned a path with a tagged pose, found by
\* searches of its own between its own view states, and it met a cost
\* matrix the first call had met.
C11_Witness ==
    /\ pc = "solved" /\ run.call = 2 /\ run.error = ""
    /\ Tagged(ReturnedPath) # {}
    /\ Len(ReturnedPath) > 2
    /\ \E k \in DOMAIN tables.path_table :
          k[2][1] > Len(run.views) /\ Len(tables.path_table[k]) > 1

(***************************************************************************)
(* The cost a search records.                                              *)
(***************************************************************************)
\* The edges that leave pose u in the neighbour graph, as pairs
\* <<pose, cost>>: the cost is turn cost + reverse cost + safe cost, plus
\* the penalty of end on an edge that enters end.
EdgesFrom(u, end) ==
    {<<<<n[1], n[2], n[3]>>,
       TURN_FACTOR * turn_cost(u[3], n[3])
         + REVERSE_FACTOR * reverse_cost(n[5]) + n[4]
         + (IF is_eq(end, n[1], n[2], n[3]) THEN end.penalty ELSE 0)>> :
        n \in Range(ComputeNeighbors(obstacles, u[1], u[2], u[3]))}

LeastOf(S) == CHOOSE m \in S : \A n \in S : m <= n

\* The least summed edge cost of a path from the poses of DOMAIN dist to
\* every pose within reach, by relaxation of the edges that leave the poses
\* whose cost went down last.
RECURSIVE Settle(_, _, _)
Settle(dist, frontier, end) ==
    IF frontier = {} THEN dist
    ELSE LET cands == UNION {{<<e[1], dist[u] + e[2]>> : e \in EdgesFrom(u, end)} :
                               u \in frontier}
             better == {p \in cands :
                          p[1] \notin DOMAIN dist \/ p[2] < dist[p[1]]}
             changed == {p[1] : p \in better}
             new == [v \in changed |->
                       LeastOf({p[2] : p \in {q \in better : q[1] = v}})]
         IN  Settle(new @@ dist, changed, end)

\* The minimum, over all paths from start to end in the neighbour graph,
\* of the summed edge cost.
MinCost(start, end) ==
    Settle(<<start.x, start.y, start.direction>> :> 0,
           {<<start.x, start.y, start.direction>>},
           end)[<<end.x, end.y, end.direction>>]

PathCost(path, end) ==
    SumSeq([i \in 1..(Len(path) - 1) |->
              LeastOf({e[2] : e \in {f \in EdgesFrom(path[i], end) :
                                       f[1] = path[i + 1]}})])

C21_SearchTerminates ==
    /\ [](pc = "astar" /\ astar.heap # <<>> =>
            \/ AstarIteration(astar, tables, obstacles).returned
            \/ AstarIteration(astar, tables, obstacles).a # astar)
    /\ [][pc = "astar" /\ pc' = "astar" =>
            \/ /\ astar'.visited = astar.visited
               /\ Len(astar'.heap) = Len(astar.heap) - 1
            \/ \E pose \in astar'.visited \ astar.visited :
                  /\ astar'.visited = astar.visited \cup {pose}
                  /\ pose = <<NextPopped[2], NextPopped[3], NextPopped[4]>>
                  /\ is_valid_coord(pose[1], pose[2])
                       \/ pose = <<astar.start.x, astar.start.y,
                                   astar.start.direction>>]_vars
    /\ [][pc = "astar" /\ pc' # "astar" =>
            \/ astar.heap = <<>>
            \/ is_eq(astar.end, NextPopped[2], NextPopped[3], NextPopped[4])]_vars

\* A search that has expanded poses and is about to drop a stale heap
\* entry: the pose of its least entry was expanded before.
C21_Witness ==
    /\ pc = "astar" /\ astar.heap # <<>>
    /\ Cardinality(astar.visited) > 10
    /\ <<NextPopped[2], NextPopped[3], NextPopped[4]>> \in astar.visited

(***************************************************************************)
(* A search without a path.                                                *)
(***************************************************************************)
\* The key of the pair of the search in progress.
SearchKey == <<astar.start.ref, astar.end.ref>>

\* C22 as stated: a search whose heap runs empty before the goal is
\* dequeued signals an error to its caller.
C22_NoPathIsError ==
    [][pc = "astar" /\ astar.heap = <<>> => run'.error # ""]_vars

\* C22 amended: a search whose heap runs empty before the goal is dequeued
\* returns normally: no error is signalled, path_table and cost_table are
\* left without an entry for the pair, and _generate_paths goes on with the
\* next pair.
C22_NoPathReturnsNormally ==
    [][pc = "astar" /\ astar.heap = <<>> =>
          /\ pc' = "paths"
          /\ run'.error = ""
          /\ run' = NextPair(run)
          /\ tables' = tables
          /\ SearchKey \notin DOMAIN tables'.path_table
          /\ SearchKey \notin DOMAIN tables'.cost_table]_vars

\* After a search that found no path, _generate_paths is at a later pair
\* and the tables hold nothing for the pair of that search.
C22_Witness ==
    /\ pc = "paths" /\ run.error = ""
    /\ \E i \in 1..Len(run.visit_states) :
          \E j \in (i + 1)..Len(run.visit_states) :
              /\ i < run.i \/ (i = run.i /\ j < run.j)
              /\ <<run.visit_states[i].ref, run.visit_states[j].ref>>
                     \notin DOMAIN tables.path_table

(***************************************************************************)
(* The motion table.                                                       *)
(***************************************************************************)
\* The key of the opposite orientation of a motion_table key.
MirrorKey(k) == <<k[4], k[5], k[6], k[1], k[2], k[3]>>

\* The motion of the step p -> q by the stated rule: the stored primitive
\* on an exact match, the opposite of the stored primitive when only the
\* mirrored key exists.
StatedMotion(mt, k) ==
    IF k \in DOMAIN mt THEN mt[k] ELSE opposite_motion(mt[MirrorKey(k)])

\* The motion of the step p -> q in the lookup order of
\* optimal_path_to_motion_path: mirrored key first, then the exact key.
LookupMotion(mt, k) ==
    IF MirrorKey(k) \in DOMAIN mt THEN opposite_motion(mt[MirrorKey(k)])
    ELSE mt[k]

\* C23: motion_table never holds both orientations of a pair of poses, an
\* entry once stored is never overwritten nor removed, and for every step
\* the table knows in some orientation the lookup order of the compiler
\* gives the motion of the stated rule.
C23_MotionTableOneOrientation ==
    /\ [](\A k \in DOMAIN tables.motion_table :
             /\ MirrorKey(k) \notin DOMAIN tables.motion_table
             /\ LookupMotion(tables.motion_table, k)
                    = StatedMotion(tables.motion_table, k)
             /\ LookupMotion(tables.motion_table, MirrorKey(k))
                    = StatedMotion(tables.motion_table, MirrorKey(k)))
    /\ [][\A k \in DOMAIN tables.motion_table :
             /\ k \in DOMAIN tables'.motion_table
             /\ tables'.motion_table[k] = tables.motion_table[k]]_vars

\* The answer holds a step whose motion was stored in the opposite
\* orientation, by a search that met the edge the other way round.
C23_Witness ==
    /\ pc = "done" /\ out.status = 200
    /\ \E i \in 1..(Len(out.path) - 1) :
          /\ <<out.path[i + 1].x, out.path[i + 1].y, out.path[i + 1].direction,
               out.path[i].x, out.path[i].y, out.path[i].direction>>
                 \in DOMAIN tables.motion_table
          /\ out.path[i].direction # out.path[i + 1].direction

(***************************************************************************)
(* The recorded cost and the recorded path.                                *)
(***************************************************************************)
\* The path is a path of the neighbour graph and cost is its summed edge
\* cost, the penalty of q added on the edge that enters q.
IsEdgeSum(path, q, cost) ==
    /\ \A i \in 1..(Len(path) - 1) :
          \E e \in EdgesFrom(path[i], q) : e[1] = path[i + 1]
    /\ cost = PathCost(path, q)

MirrorSearchKey == <<astar.end.ref, astar.start.ref>>

\* C24 as stated: under the key of the search and under the mirrored key
\* alike, the recorded cost is the summed edge cost of the recorded list
\* traversed from the first pose of the key to the second.
C24_CostIsEdgeSumBothWays ==
    [][pc = "astar" /\ SearchKey \in DOMAIN tables'.cost_table
       => /\ IsEdgeSum(tables'.path_table[SearchKey], astar.end,
                       tables'.cost_table[SearchKey])
          /\ IsEdgeSum(tables'.path_table[MirrorSearchKey], astar.start,
                       tables'.cost_table[MirrorSearchKey])]_vars

\* C24 amended: under the key of the search the recorded cost is the
\* summed edge cost of the recorded list, the penalty of the end pose
\* included; the mirrored key holds the same list reversed and the same
\* number, which is the cost of the traversal in search orientation.
C24_CostIsEdgeSumOfSearch ==
    [][pc = "astar" /\ SearchKey \in DOMAIN tables'.cost_table
       /\ SearchKey \notin DOMAIN tables.cost_table
       => /\ IsEdgeSum(tables'.path_table[SearchKey], astar.end,
                       tables'.cost_table[SearchKey])
          /\ MirrorSearchKey \in DOMAIN tables'.cost_table
          /\ MirrorSearchKey \in DOMAIN tables'.path_table
          /\ tables'.cost_table[MirrorSearchKey] = tables'.cost_table[SearchKey]
          /\ tables'.path_table[MirrorSearchKey]
                = Reverse(tables'.path_table[SearchKey])]_vars

\* A search between two viewpoints of different penalty is on record with
\* a path of several poses, under both keys.
C24_Witness ==
    \E k \in DOMAIN tables.cost_table :
        /\ k[1] # <<0, 0>> /\ k[2] # <<0, 0>>
        /\ <<k[2], k[1]>> \in DOMAIN tables.cost_table
        /\ Len(tables.path_table[k]) > 2
        /\ tables.cost_table[k] > 0

(***************************************************************************)
(* generate_commands on its own: the command generator applied to every    *)
(* motion list of up to MaxMotions motions that                            *)
(* optimal_path_to_motion_path can build, where a CAPTURE follows the      *)
(* motion that enters the tagged pose.                                     *)
(***************************************************************************)
MaxMotions == 5

MotionLists ==
    {ms \in UNION {[1..n -> Motions] : n \in 0..MaxMotions} :
        \A i \in 1..Len(ms) :
            ms[i] = "CAPTURE" => i > 1 /\ ms[i - 1] # "CAPTURE"}

\* obstacle_id_with_signals: one "<id>_C" per CAPTURE of the motion list.
SignalsOf(ms) ==
    [k \in 1..Cardinality({i \in 1..Len(ms) : ms[i] = "CAPTURE"}) |-> <<k, "C">>]

CommandsInit ==
    /\ pc = "compile"
    /\ robot = WithRef(CellState(1, 1, NORTH, None, 0), <<0, 0>>)
    /\ obstacles = <<>>
    /\ request_ids = {}
    /\ tables = NoTables
    /\ run = NoRun
    /\ astar = NoSearch
    /\ \E ms \in MotionLists : out = [NoOut EXCEPT !.motions = ms]
    /\ order = NoOrder

\* find_path, lines 58-63: command_generator.generate_commands.
GenerateCommands ==
    /\ pc = "compile"
    /\ pc' = "done"
    /\ out' = [out EXCEPT
                 !.status = 200,
                 !.commands = generate_commands(out.motions, SignalsOf(out.motions),
                                                <<>>, <<>>)]
    /\ UNCHANGED <<order, robot, obstacles, request_ids, tables, run, astar>>

CommandsNext == GenerateCommands

SpecCommands == CommandsInit /\ [][CommandsNext]_vars

(***************************************************************************)
(* Properties of the commands.                                             *)
(***************************************************************************)
\* The maximal runs of identical motions of a motion list, in order, as
\* pairs <<motion, length>>.
RECURSIVE RunsOf(_)
RunsOf(ms) ==
    IF ms = <<>> THEN <<>>
    ELSE LET rest == RunsOf(Tail(ms))
         IN  IF rest # <<>> /\ rest[1][1] = Head(ms)
             THEN << <<Head(ms), rest[1][2] + 1>> >> \o Tail(rest)
             ELSE << <<Head(ms), 1>> >> \o rest

IsReverseCmd(cmd) == cmd[1] = "t" /\ cmd[2] = 35

IsRealignCmd(cmd) == cmd = <<"T", 25, 30, 1>>

\* What the stated rule gives for a run of n REVERSE motions:
\* floor(n / 2) times (t35|0|20, T25|30|0.1), then (t35|0|10, T25|30|0.1)
\* when n is odd.
StatedReverseCmds(n) ==
    Repeat(<<<<"t", 35, 0, 200>>, <<"T", 25, 30, 1>>>>, n \div 2)
    \o (IF n % 2 = 1 THEN <<<<"t", 35, 0, 100>>, <<"T", 25, 30, 1>>>> ELSE <<>>)

\* The distances of the t35 commands, in tenths of a centimetre, summed.
SumOfReverse(commands) ==
    SumSeq([i \in 1..Len(commands) |->
              IF IsReverseCmd(commands[i]) THEN commands[i][4] ELSE 0])

\* C25: the t35 and realign commands of the command list are, run by run
\* of REVERSE motions, floor(n / 2) pairs (t35|0|20, T25|30|0.1) followed
\* by (t35|0|10, T25|30|0.1) when n is odd; the t35 distances sum to 10 cm
\* per REVERSE motion and every t35 is immediately followed by the realign.
C25_ReverseRuns ==
    pc = "done" /\ out.motions # <<>> =>
        LET runs == RunsOf(out.motions)
        IN  /\ SelectSeq(out.commands,
                         LAMBDA cmd : IsReverseCmd(cmd) \/ IsRealignCmd(cmd))
                 = Concat([i \in 1..Len(runs) |->
                             IF runs[i][1] = "REVERSE"
                             THEN StatedReverseCmds(runs[i][2]) ELSE <<>>])
            /\ SumOfReverse(out.commands)
                 = 100 * Cardinality({i \in 1..Len(out.motions) :
                                         out.motions[i] = "REVERSE"})
            /\ \A i \in 1..Len(out.commands) :
                  IsReverseCmd(out.commands[i]) =>
                      /\ i < Len(out.commands)
                      /\ IsRealignCmd(out.commands[i + 1])

\* A motion list with a run of three REVERSE motions has been compiled to
\* a t35 of 20 cm and a t35 of 10 cm.
C25_Witness ==
    /\ pc = "done"
    /\ \E i \in 1..Len(RunsOf(out.motions)) : RunsOf(out.motions)[i] = <<"REVERSE", 3>>
    /\ \E i \in 1..Len(out.commands) : out.commands[i] = <<"t", 35, 0, 100>>
    /\ \E i \in 1..Len(out.commands) : out.commands[i] = <<"t", 35, 0, 200>>

IsForwardCmd(cmd) == cmd[1] = "T" /\ cmd[2] = straight_speed

Turns ==
    {"FORWARD_LEFT_TURN", "FORWARD_RIGHT_TURN",
     "REVERSE_LEFT_TURN", "REVERSE_RIGHT_TURN"}

\* What the stated rule gives for a run of n identical motions: one
\* T50|0|10n for FORWARD, n copies of the turn's tuple for a turn.
StatedMoveCmds(motion, n) ==
    IF motion = "FORWARD" THEN << <<"T", 50, 0, 100 * n>> >>
    ELSE IF motion \in Turns THEN Repeat(_generate_command(motion, 1), n)
    ELSE <<>>

\* C26: apart from the SNAP, FIN, t35 and realign commands, the command
\* list is, run by run of identical motions, one T50|0|10n for a maximal
\* run of n FORWARD motions (a CAPTURE or a turn ends the run) and k copies
\* of the turn's tuple for k identical turns; the T50 and t35 distances sum
\* to 10 cm per FORWARD and REVERSE motion.
C26_ForwardRunsAndTurns ==
    pc = "done" /\ out.motions # <<>> =>
        LET runs == RunsOf(out.motions)
        IN  /\ SelectSeq(out.commands,
                         LAMBDA cmd : /\ cmd[1] \notin {"SNAP", "FIN"}
                                      /\ ~IsReverseCmd(cmd)
                                      /\ ~IsRealignCmd(cmd))
                 = Concat([i \in 1..Len(runs) |->
                             StatedMoveCmds(runs[i][1], runs[i][2])])
            /\ SumSeq([i \in 1..Len(out.commands) |->
                         IF IsForwardCmd(out.commands[i])
                            \/ IsReverseCmd(out.commands[i])
                         THEN out.commands[i][4] ELSE 0])
                 = 100 * Cardinality({i \in 1..Len(out.motions) :
                                         out.motions[i] \in {"FORWARD", "REVERSE"}})

\* Two FORWARD motions, two identical turns and one more FORWARD motion
\* have been compiled to T50|0|20, two turn tuples and T50|0|10.
C26_Witness ==
    /\ pc = "done"
    /\ \E t \in Turns :
          out.motions = <<"FORWARD", "FORWARD", t, t, "FORWARD">>
    /\ out.commands[1] = <<"T", 50, 0, 200>>
    /\ out.commands[Len(out.commands) - 1] = <<"T", 50, 0, 100>>
    /\ Len(out.commands) >= 11
(***************************************************************************)
(* The place of the SNAP commands.                                         *)
(***************************************************************************)
\* The commands the route compiles for a path, the closing FIN left out.
CommandsOf(path) ==
    LET compiled == optimal_path_to_motion_path(path, tables.motion_table,
                                                obstacles)
        commands == generate_commands(compiled.motion_path,
                                      compiled.obstacle_id_with_signals,
                                      compiled.scanned_obstacles, path)
    IN  IF commands = <<>> THEN <<>>
        ELSE SubSeq(commands, 1, Len(commands) - 1)

\* The tags of the SNAP commands, in order.
SnapTags(commands) ==
    LET snaps == SelectSeq(commands, LAMBDA cmd : cmd[1] = "SNAP")
    IN  [i \in 1..Len(snaps) |-> <<snaps[i][2], snaps[i][3]>>]

\* The tags of the tagged poses, in order.
PoseTags(path) ==
    LET tagged == SelectSeq(path, LAMBDA c : c.screenshot_id # None)
    IN  [i \in 1..Len(tagged) |-> tagged[i].screenshot_id]

\* The commands are those of the path up to pose i, which end with the SNAP
\* of pose i, followed by those of the path from pose i on.
SnapInPlace(i) ==
    LET before == CommandsOf(SubSeq(out.path, 1, i))
        after == CommandsOf(SubSeq(out.path, i, Len(out.path)))
    IN  /\ before # <<>>
        /\ before[Len(before)]
              = <<"SNAP", out.path[i].screenshot_id[1], out.path[i].screenshot_id[2]>>
        /\ out.commands = before \o after \o << <<"FIN">> >>

\* C27: the SNAP commands carry the tags of the tagged poses of the
\* returned path, in the order of the path, and the SNAP of a tagged pose
\* stands after every command of the motion that enters the pose and
\* before every command of the motion that leaves it.
C27_SnapOrderAndPlace ==
    pc = "done" /\ out.status = 200 =>
        /\ SnapTags(out.commands) = PoseTags(out.path)
        /\ \A i \in Tagged(out.path) : SnapInPlace(i)

\* The same for the tagged poses that a motion enters: every tagged pose
\* but a tagged first pose of the path.
C27_SnapsOfEnteredPoses ==
    pc = "done" /\ out.status = 200 /\ Len(out.path) > 1 =>
        /\ SnapTags(out.commands) = PoseTags(Tail(out.path))
        /\ \A i \in Tagged(out.path) \ {1} : SnapInPlace(i)

(***************************************************************************)
(* The motions of the returned path.                                       *)
(***************************************************************************)
\* The motions of the answer without the CAPTUREs: one per step of the path.
StepMotions == SelectSeq(out.motions, LAMBDA m : m # "CAPTURE")

\* The primitives that the neighbour enumeration at p gives for the
\* neighbour q.
EdgePrimitives(p, q) ==
    {n[5] : n \in {e \in Range(ComputeNeighbors(obstacles, p.x, p.y, p.direction)) :
                      <<e[1], e[2], e[3]>> = <<q.x, q.y, q.direction>>}}

\* C28: the motion emitted for every step p -> q of the returned path is
\* the primitive that the neighbour enumeration at p assigns to q, also
\* when the motion_table entry was stored for q -> p and flipped.
C28_MotionIsEdgePrimitive ==
    pc = "done" /\ out.status = 200 =>
        \A i \in 1..(Len(out.path) - 1) :
            EdgePrimitives(out.path[i], out.path[i + 1]) = {StepMotions[i]}

\* The same for the straight steps of the path alone.
C28_StraightStepsOnly ==
    pc = "done" /\ out.status = 200 =>
        \A i \in 1..(Len(out.path) - 1) :
            out.path[i].direction = out.path[i + 1].direction
            /\ EdgePrimitives(out.path[i], out.path[i + 1]) # {}
            => EdgePrimitives(out.path[i], out.path[i + 1]) = {StepMotions[i]}

(***************************************************************************)
(* Stitching and compiling.                                                *)
(***************************************************************************)
\* The step from pose p to pose q has a motion_table entry in one of the
\* two orientations.
HasMotion(p, q) ==
    \/ <<p.x, p.y, p.direction, q.x, q.y, q.direction>> \in DOMAIN tables.motion_table
    \/ <<q.x, q.y, q.direction, p.x, p.y, p.direction>> \in DOMAIN tables.motion_table

\* C29: stitching never reads a pair that path_table does not hold (no
\* KeyError is raised), every step of a path that was accepted as the best
\* so far has a motion_table entry in one of the two orientations, and the
\* route never answers 500 for a KeyError or an 'Invalid path' ValueError.
C29_NoMissingEntry ==
    /\ run.error = ""
    /\ \A i \in 1..(Len(run.optimal_path) - 1) :
          HasMotion(run.optimal_path[i], run.optimal_path[i + 1])
    /\ pc = "done" => out.status \in {200, 422}

\* A path through two tagged poses was accepted and compiled, with a step
\* read from motion_table in the opposite orientation.
C29_Witness ==
    /\ pc = "done" /\ out.status = 200
    /\ Cardinality(Tagged(out.path)) >= 2
    /\ \E i \in 1..(Len(out.path) - 1) :
          <<out.path[i + 1].x, out.path[i + 1].y, out.path[i + 1].direction,
            out.path[i].x, out.path[i].y, out.path[i].direction>>
              \in DOMAIN tables.motion_table

(***************************************************************************)
(* One MazeSolver under add_obstacle, clear_obstacles and two calls of     *)
(* get_optimal_path: the obstacles may change between the calls while the  *)
(* solver keeps its tables.                                                *)
(***************************************************************************)
ReuseObstacles ==
    {Obstacle(1, 6, EAST, 1), Obstacle(4, 4, WEST, 3), Obstacle(6, 6, NORTH, 4)}

ReuseInit ==
    /\ pc = "setup"
    /\ robot = WithRef(CellState(1, 1, NORTH, None, 0), <<0, 0>>)
    /\ obstacles = <<>>
    /\ request_ids = {}
    /\ tables = NoTables
    /\ run = NoRun
    /\ astar = NoSearch
    /\ out = NoOut
    /\ order = NoOrder

\* MazeSolver.add_obstacle after the first get_optimal_path has returned:
\* the Grid gets the obstacle, the solver's tables stay as they are.
AddObstacleAgain(o) ==
    /\ pc = "solved"
    /\ run.call = 1
    /\ Cardinality(request_ids) < MaxObstacles
    /\ o.obstacle_id \notin request_ids
    /\ obstacles' = add_obstacle(obstacles, o)
    /\ request_ids' = request_ids \cup {o.obstacle_id}
    /\ UNCHANGED <<order, pc, robot, tables, run, astar, out>>

\* MazeSolver.clear_obstacles after the first get_optimal_path has
\* returned: the Grid is emptied, the solver's tables stay as they are.
ClearObstacles ==
    /\ pc = "solved"
    /\ run.call = 1
    /\ obstacles # <<>>
    /\ obstacles' = reset_obstacles
    /\ request_ids' = {}
    /\ UNCHANGED <<order, pc, robot, tables, run, astar, out>>

ReuseNext ==
    \/ \E o \in ReuseObstacles : AddObstacle(o)
    \/ BeginSolve
    \/ StartMask
    \/ SearchPair
    \/ AstarStep
    \/ AstarExhausted
    \/ PathsDone
    \/ EvalCombinationMemo
    \/ EndMask
    \/ \E o \in ReuseObstacles : AddObstacleAgain(o)
    \/ ClearObstacles
    \/ SolveAgain

SpecReuse == ReuseInit /\ [][ReuseNext]_vars

\* C30: every entry of neighbor_cache is the list that
\* _get_neighboring_states computes from the obstacles the Grid holds now,
\* whatever add_obstacle, clear_obstacles and get_optimal_path calls came
\* before.
C30_CacheIsCurrent ==
    \A k \in DOMAIN tables.neighbor_cache :
        tables.neighbor_cache[k] = ComputeNeighbors(obstacles, k[1], k[2], k[3])

\* The weaker statement that no search of a second call pops a pose whose
\* cached neighbours differ from those of the obstacles the Grid holds
\* now: it fails as well, the stale entries are read.
C30_StaleCacheIsRead ==
    pc = "astar" /\ run.call = 2 /\ astar.heap # <<>> =>
        LET pose == <<NextPopped[2], NextPopped[3], NextPopped[4]>>
        IN  pose \in DOMAIN tables.neighbor_cache =>
               tables.neighbor_cache[pose]
                   = ComputeNeighbors(obstacles, pose[1], pose[2], pose[3])

=============================================================================
